---------------------------- MODULE Spec2Model ----------------------------
(***************************************************************************)
(* A model of btorsim, the BTOR2 simulator and witness checker             *)
(* (src/tools/btor2/btor2i/btor2tools-sys/btor2tools/src/btorsim).         *)
(*                                                                         *)
(* The state is the simulator's global state (current_state, next_state,   *)
(* reached_bads, constraints_violated, num_unreached_bads, the RNG, the    *)
(* witness reader's flags), standard output, the exit status and the       *)
(* program position.  One action per function of btorsim.c, or per         *)
(* iteration of its line-reading loops.                                    *)
(***************************************************************************)
EXTENDS Integers, Sequences, FiniteSets, TLC

\* ------------------------------------------------------------------ bounds

\* Largest seed given with -s.
MaxSeed == 3
\* Largest bound given with -r.
MaxR == 4
\* Most lines the checker reads from a freely chosen witness.
MaxLines == 5
\* Largest frame number written in a '#k' or '@k' header of a free witness.
MaxFrame == 2

MaxWidth == 2

MaxClaims == 2
\* Widest bit vector of which every value is an operand of the library; the
\* operands of more than a word are listed by WideOnes.
MaxBits == 3
\* Widest bit vector of which every value is written in decimal.
MaxDecBits == 4
\* Most numbers drawn from one generator in a row.
MaxDraws == 3

\* --------------------------------------------------- 32-bit unsigned words
\* TLC's integers are 32-bit signed, so a uint32_t is kept as two 16-bit
\* halves and every product is formed from 8-bit by 16-bit pieces.

Half == 2 ^ 16

\* The one element of a singleton set: Only({e(x) : x \in {v}}) is e(v) with
\* v computed once.
Only(S) == CHOOSE y \in S : TRUE

U32(h, l) == [hi |-> h, lo |-> l]

UINT_MAX == U32(Half - 1, Half - 1)

\* x * y for 16-bit x and y, as a 32-bit word.
Mul16(x, y) ==
  LET q == (x \div 256) * y
      s == (q % 256) * 256 + (x % 256) * y
  IN U32((q \div 256) + (s \div Half), s % Half)

Add32(a, b) ==
  LET l == a.lo + b.lo
  IN U32((a.hi + b.hi + (l \div Half)) % Half, l % Half)

Sub32(a, b) ==
  LET l == a.lo - b.lo
      borrow == IF l < 0 THEN 1 ELSE 0
  IN U32((a.hi - b.hi - borrow + 2 * Half) % Half, (l + Half) % Half)

Mul32(a, b) ==
  LET p == Mul16(a.lo, b.lo)
      c == Mul16(a.hi, b.lo).lo + Mul16(a.lo, b.hi).lo
  IN U32((p.hi + c) % Half, p.lo)

Not32(a) == U32(Half - 1 - a.hi, Half - 1 - a.lo)

\* a << 1 that does not shift.
NoShift(a) == a

Shl32(a) == U32((2 * a.hi + ((2 * a.lo) \div Half)) % Half, (2 * a.lo) % Half)

Less32(a, b) == a.hi < b.hi \/ (a.hi = b.hi /\ a.lo < b.lo)

\* Bit i (0 = least significant) of a 32-bit word.
Bit32(a, i) ==
  IF i < 16 THEN (a.lo \div (2 ^ i)) % 2 ELSE (a.hi \div (2 ^ (i - 16))) % 2

\* a % m by shift and subtract, most significant bit first; the running
\* remainder is below m, so its double fits the two halves plus one bit.
RECURSIVE ModStep(_, _, _, _)
ModStep(rem, a, m, i) ==
  IF i < 0 THEN rem
  ELSE LET l == 2 * rem.lo + Bit32(a, i)
           d == [hi |-> 2 * rem.hi + (l \div Half), lo |-> l % Half]
           n == IF Less32(d, m) THEN d
                ELSE LET dl == d.lo - m.lo
                         bo == IF dl < 0 THEN 1 ELSE 0
                     IN [hi |-> d.hi - m.hi - bo, lo |-> (dl + Half) % Half]
       IN ModStep(n, a, m, i - 1)

Mod32(a, m) ==
  IF Less32(a, m) THEN a
  ELSE Only({IF Less32(d, m) THEN d ELSE ModStep(U32(0, 0), a, m, 31) :
            d \in {Sub32(a, m)}})

\* --------------------------------------------------------------------- RNG

Mulw == U32(30810, 373)
Mulz == U32(15268, 29121)

btorsim_rng_init(seed) ==
  LET w0 == U32(0, seed)
      z0 == Not32(w0)
      w1 == Add32(Shl32(w0), U32(0, 1))
      z1 == Add32(Shl32(z0), U32(0, 1))
  IN [z |-> Mul32(z1, Mulz), w |-> Mul32(w1, Mulw)]

\* The generator after one step, and the value the step returns.
btorsim_rng_rand(g) ==
  Only({[rng |-> n, res |-> U32((n.z.lo + n.w.hi) % Half, n.w.lo)] :
       n \in {[z |-> Add32(Mul16(36969, g.z.lo), U32(0, g.z.hi)),
        w |-> Add32(Mul16(18000, g.w.lo), U32(0, g.w.hi))]}})

btorsim_rng_pick_rand(g, from, to) ==
  Only({[rng |-> p.d.rng,
          res |-> Add32(Mod32(p.d.res, Add32(Sub32(p.t, p.f), U32(0, 1))), p.f)] :
       p \in {[f |-> IF from = UINT_MAX THEN Sub32(UINT_MAX, U32(0, 1)) ELSE from,
        t |-> IF to = UINT_MAX THEN Sub32(UINT_MAX, U32(0, 1)) ELSE to,
        d |-> btorsim_rng_rand(g)]}})

\* ------------------------------------------------------------- bit vectors
\* A BtorSimBitVector of at most 16 bits: its width and its value.  NoBV is
\* the null pointer of the state tables.

BV(w, v) == [width |-> w, val |-> v]

NoBV == [width |-> 0, val |-> 0]

Pow2(n) == 2 ^ n

btorsim_bv_new(bw) == BV(bw, 0)

\* The first word is drawn from 0 .. ((~0) >> s) - 1, which is 0xfffffffe
\* for the arithmetic shift of the int -1 that gcc and clang perform; the
\* spare bits are then masked off.
btorsim_bv_new_random(g, bw) ==
  Only({[rng |-> d.rng, bv |-> BV(bw, d.res.lo % Pow2(bw))] :
       d \in {btorsim_rng_pick_rand(g, U32(0, 0), Sub32(UINT_MAX, U32(0, 1)))}})

\* A string of '0' and '1', most significant bit first, as a sequence of
\* 0 and 1.
RECURSIVE BitsVal(_)
BitsVal(str) ==
  IF str = <<>> THEN 0
  ELSE 2 * BitsVal(SubSeq(str, 1, Len(str) - 1)) + str[Len(str)]

btorsim_bv_char_to_bv(str) == BV(Len(str), BitsVal(str))

btorsim_bv_get_bit(bv, pos) == (bv.val \div Pow2(pos)) % 2

\* What btorsim_bv_print_without_new_line writes: bit width-1 down to bit 0.
btorsim_bv_print_without_new_line(bv) ==
  [i \in 1..bv.width |-> btorsim_bv_get_bit(bv, bv.width - i)]

btorsim_bv_is_zero(bv) == bv.val = 0

\* 0 when equal, -1 or 1 otherwise.
btorsim_bv_compare(a, b) ==
  IF a.width # b.width THEN -1
  ELSE IF a.val = b.val THEN 0
  ELSE IF a.val > b.val THEN 1 ELSE -1

\* A btorsim_bv_not that returns its argument as it is.
NotAsCopy(bv) == bv

btorsim_bv_not(bv) == BV(bv.width, Pow2(bv.width) - 1 - bv.val)

btorsim_bv_one(bw) == BV(bw, 1)

btorsim_bv_ones(bw) == btorsim_bv_not(btorsim_bv_new(bw))

\* x op y bit by bit over n bits; tt is the truth table <<00, 01, 10, 11>>.
RECURSIVE BitOp(_, _, _, _)
BitOp(tt, x, y, n) ==
  IF n = 0 THEN 0
  ELSE 2 * BitOp(tt, x \div 2, y \div 2, n - 1) + tt[2 * (x % 2) + (y % 2) + 1]

btorsim_bv_and(a, b) == BV(a.width, BitOp(<<0, 0, 0, 1>>, a.val, b.val, a.width))

btorsim_bv_or(a, b) == BV(a.width, BitOp(<<0, 1, 1, 1>>, a.val, b.val, a.width))

btorsim_bv_xor(a, b) == BV(a.width, BitOp(<<0, 1, 1, 0>>, a.val, b.val, a.width))

btorsim_bv_xnor(a, b) == BV(a.width, BitOp(<<1, 0, 0, 1>>, a.val, b.val, a.width))

\* An addition that drops the carries.
AddWithoutCarry(a, b) == BV(a.width, BitOp(<<0, 1, 1, 0>>, a.val, b.val, a.width))

btorsim_bv_add(a, b) == BV(a.width, (a.val + b.val) % Pow2(a.width))

btorsim_bv_inc(bv) == btorsim_bv_add(bv, btorsim_bv_one(bv.width))

btorsim_bv_eq(a, b) == BV(1, IF a.val = b.val THEN 1 ELSE 0)

btorsim_bv_neq(a, b) == BV(1, IF a.val = b.val THEN 0 ELSE 1)

\* ------------------------------------------------------- machine integers
\* An unsigned integer of n bits (a uint32_t word of the bits array, a
\* uint64_t) is the sequence of its n bits, least significant first, so
\* that no value is too large for TLC's integers and a conversion to a
\* narrower type drops the high bits as C does.

\* BTORSIM_BV_TYPE_BW: the bits of one word of the bits array.
BTORSIM_BV_TYPE_BW == 32

\* The function f on 1..n as the sequence of its n values, each computed once.
Tup(f) == <<>> \o f

\* Bit i of the natural number v.
NatBit(v, i) == IF i < 31 THEN (v \div (2 ^ i)) % 2 ELSE 0

\* The natural number v as an unsigned integer of n bits.
UInt(v, n) == Tup([i \in 1..n |-> NatBit(v, i - 1)])

\* The conversion of x to an unsigned type of n bits.
Conv(x, n) == Tup([i \in 1..n |-> IF i <= Len(x) THEN x[i] ELSE 0])

UNot(x) == Tup([i \in 1..Len(x) |-> 1 - x[i]])

UAnd(x, y) == Tup([i \in 1..Len(x) |-> x[i] * y[i]])

UOr(x, y) == Tup([i \in 1..Len(x) |-> IF x[i] + y[i] > 0 THEN 1 ELSE 0])

UXor(x, y) == Tup([i \in 1..Len(x) |-> (x[i] + y[i]) % 2])

\* x << k and x >> k for 0 <= k < Len(x).
UShl(x, k) == Tup([i \in 1..Len(x) |-> IF i > k THEN x[i - k] ELSE 0])

UShr(x, k) ==
  Tup([i \in 1..Len(x) |-> IF i + k <= Len(x) THEN x[i + k] ELSE 0])

\* The bits of x from the i-th on are zero.
ZeroFrom(x, i) == \A j \in i..Len(x) : x[j] = 0

\* The value of x, below 2^31, from the i-th bit on.
RECURSIVE ValFrom(_, _)
ValFrom(x, i) == IF ZeroFrom(x, i) THEN 0 ELSE x[i] + 2 * ValFrom(x, i + 1)

UVal(x) == ValFrom(x, 1)

\* The bits lo..hi of x + y + c and the carry out of them; the range is
\* halved so that the computation nests no deeper than its logarithm.
RECURSIVE AddRange(_, _, _, _, _)
AddRange(x, y, lo, hi, c) ==
  IF c = 0 /\ \A i \in lo..hi : x[i] = 0 /\ y[i] = 0
  THEN [bits |-> [i \in 1..(hi - lo + 1) |-> 0], c |-> 0]
  ELSE IF lo = hi
  THEN [bits |-> <<(x[lo] + y[lo] + c) % 2>>, c |-> (x[lo] + y[lo] + c) \div 2]
  ELSE Only({Only({[bits |-> l.bits \o h.bits, c |-> h.c] :
                   h \in {AddRange(x, y, (lo + hi) \div 2 + 1, hi, l.c)}}) :
             l \in {AddRange(x, y, lo, (lo + hi) \div 2, c)}})

\* x + y modulo 2^Len(x).
UAdd(x, y) == AddRange(x, y, 1, Len(x), 0).bits

\* The bits lo..hi of x - y - b and the borrow out of them.
RECURSIVE SubRange(_, _, _, _, _)
SubRange(x, y, lo, hi, b) ==
  IF b = 0 /\ \A i \in lo..hi : y[i] = 0
  THEN [bits |-> SubSeq(x, lo, hi), b |-> 0]
  ELSE IF lo = hi
  THEN [bits |-> <<(x[lo] + y[lo] + b) % 2>>,
        b |-> IF x[lo] < y[lo] + b THEN 1 ELSE 0]
  ELSE Only({Only({[bits |-> l.bits \o h.bits, b |-> h.b] :
                   h \in {SubRange(x, y, (lo + hi) \div 2 + 1, hi, l.b)}}) :
             l \in {SubRange(x, y, lo, (lo + hi) \div 2, b)}})

\* x - y modulo 2^Len(x).
USub(x, y) == SubRange(x, y, 1, Len(x), 0).bits

\* x < y, decided at the highest bit in which they differ.
ULess(x, y) ==
  \E i \in 1..Len(x) : /\ x[i] < y[i]
                       /\ \A j \in (i + 1)..Len(x) : x[j] = y[j]

\* The sum of the x << (i - 1) for the bits i in lo..hi set in y.
RECURSIVE MulRange(_, _, _, _)
MulRange(x, y, lo, hi) ==
  IF \A i \in lo..hi : y[i] = 0 THEN UInt(0, Len(x))
  ELSE IF lo = hi THEN UShl(x, lo - 1)
  ELSE UAdd(MulRange(x, y, lo, (lo + hi) \div 2),
            MulRange(x, y, (lo + hi) \div 2 + 1, hi))

\* x * y modulo 2^Len(x).
UMul(x, y) == MulRange(x, y, 1, Len(y))

\* A step of the long division of x by y # 0 at the bit i of x: the
\* remainder s.r, of one bit more than x, is doubled, takes the bit and
\* gives up y when it is not below y.
DivStep(x, y, i, s) ==
  Only({IF ULess(d, Append(y, 0)) THEN [q |-> s.q, r |-> d]
        ELSE [q |-> [s.q EXCEPT ![i] = 1], r |-> USub(d, Append(y, 0))] :
        d \in {<<x[i]>> \o SubSeq(s.r, 1, Len(x))}})

\* The steps at the bits hi down to lo.
RECURSIVE DivRange(_, _, _, _, _)
DivRange(x, y, lo, hi, s) ==
  IF lo > hi THEN s
  ELSE IF lo = hi THEN DivStep(x, y, lo, s)
  ELSE Only({DivRange(x, y, lo, (lo + hi) \div 2, h) :
             h \in {DivRange(x, y, (lo + hi) \div 2 + 1, hi, s)}})

\* The bits of x above its highest set bit leave quotient and remainder 0.
DivMod(x, y) ==
  DivRange(x, y, 1, Cardinality({i \in 1..Len(x) : ~ZeroFrom(x, i)}),
           [q |-> UInt(0, Len(x)), r |-> UInt(0, Len(x) + 1)])

UDiv(x, y) == DivMod(x, y).q

UMod(x, y) == SubSeq(DivMod(x, y).r, 1, Len(x))
\* ------------------------------------------------ bit vectors, word by word
\* The library on its own representation: width, len and the array bits of
\* len words of BTORSIM_BV_TYPE_BW bits, bits[0] the most significant one.
\* The word bits[i] of the source is Word(bv, i).  A function of the library
\* keeps its name; where the evaluator's section above holds the name, the
\* prefix is shortened to bv_.

Word(bv, i) == bv.bits[i + 1]

SetWord(bv, i, word) == [bv EXCEPT !.bits[i + 1] = word]

\* ((BTORSIM_BV_TYPE) 1 << (BTORSIM_BV_TYPE_BW - 1)) - 1
MaskBits ==
  USub(UShl(UInt(1, BTORSIM_BV_TYPE_BW), BTORSIM_BV_TYPE_BW - 1),
       UInt(1, BTORSIM_BV_TYPE_BW))

BTOR2_MASK_REM_BITS(bv) ==
  UShr(MaskBits, BTORSIM_BV_TYPE_BW - 1 - (bv.width % BTORSIM_BV_TYPE_BW))

rem_bits_zero_dbg(bv) ==
  \/ bv.width % BTORSIM_BV_TYPE_BW = 0
  \/ UShr(Word(bv, 0), bv.width % BTORSIM_BV_TYPE_BW)
       = UInt(0, BTORSIM_BV_TYPE_BW)

\* set_rem_bits_to_zero without its mask.
KeepRemBits(bv) == bv

set_rem_bits_to_zero(bv) ==
  IF bv.width # BTORSIM_BV_TYPE_BW * bv.len
  THEN SetWord(bv, 0, UAnd(Word(bv, 0), BTOR2_MASK_REM_BITS(bv)))
  ELSE bv

bv_new(bw) ==
  Only({[width |-> bw, len |-> i,
         bits |-> Tup([j \in 1..i |-> UInt(0, BTORSIM_BV_TYPE_BW)])] :
        i \in {bw \div BTORSIM_BV_TYPE_BW
               + (IF bw % BTORSIM_BV_TYPE_BW > 0 THEN 1 ELSE 0)}})

btorsim_bv_uint64_to_bv(value, bw) ==
  Only({set_rem_bits_to_zero(
          IF res.width > 32
          THEN SetWord(res, res.len - 2,
                       Conv(UShr(value, BTORSIM_BV_TYPE_BW),
                            BTORSIM_BV_TYPE_BW))
          ELSE res) :
        res \in {SetWord(bv_new(bw), bv_new(bw).len - 1,
                         Conv(value, BTORSIM_BV_TYPE_BW))}})

btorsim_bv_copy(bv) == [bv_new(bv.width) EXCEPT !.bits = bv.bits]

\* bv has at most 64 bits and two words.
RECURSIVE ToUint64From(_, _, _)
ToUint64From(bv, i, res) ==
  IF i >= bv.len THEN res
  ELSE ToUint64From(bv, i + 1,
         UOr(res, UShl(Conv(Word(bv, i), 64),
                       BTORSIM_BV_TYPE_BW * (bv.len - 1 - i))))

btorsim_bv_to_uint64(bv) == ToUint64From(bv, 0, UInt(0, 64))

bv_get_bit(bv, pos) ==
  UShr(Word(bv, bv.len - 1 - pos \div BTORSIM_BV_TYPE_BW),
       pos % BTORSIM_BV_TYPE_BW)[1]

btorsim_bv_set_bit(bv, pos, bit) ==
  Only({IF bit = 1
        THEN SetWord(bv, bv.len - 1 - p.i,
                     UOr(Word(bv, bv.len - 1 - p.i),
                         UShl(UInt(1, 32), p.j)))
        ELSE SetWord(bv, bv.len - 1 - p.i,
                     UAnd(Word(bv, bv.len - 1 - p.i),
                          UNot(UShl(UInt(1, 32), p.j)))) :
        p \in {[i |-> pos \div BTORSIM_BV_TYPE_BW,
                j |-> pos % BTORSIM_BV_TYPE_BW]}})

btorsim_bv_is_true(bv) == IF bv.width # 1 THEN FALSE ELSE bv_get_bit(bv, 0) = 1

bv_is_zero(bv) ==
  \A i \in 0..(bv.len - 1) : Word(bv, i) = UInt(0, BTORSIM_BV_TYPE_BW)

bv_one(bw) == btorsim_bv_set_bit(bv_new(bw), 0, 1)

\* res of width bw and res->bits[i] = words[i + 1] for every word.
WithWords(bw, words) == [bv_new(bw) EXCEPT !.bits = Tup(words)]

bv_not(bv) ==
  set_rem_bits_to_zero(
    WithWords(bv.width, [i \in 1..bv.len |-> UNot(bv.bits[i])]))

bv_ones(bw) == bv_not(bv_new(bw))

\* Above 64 bits the words are added from the last one with a carry.
RECURSIVE AddWords(_, _, _, _, _)
AddWords(a, b, i, carry, res) ==
  IF i < 0 THEN res
  ELSE Only({AddWords(a, b, i - 1,
                      Conv(UShr(sum, 32), BTORSIM_BV_TYPE_BW),
                      SetWord(res, i, Conv(sum, BTORSIM_BV_TYPE_BW))) :
             sum \in {UAdd(UAdd(Conv(Word(a, i), 64), Conv(Word(b, i), 64)),
                           Conv(carry, 64))}})

bv_add(a, b) ==
  set_rem_bits_to_zero(
    IF a.width <= 64
    THEN btorsim_bv_uint64_to_bv(
           UAdd(btorsim_bv_to_uint64(a), btorsim_bv_to_uint64(b)), a.width)
    ELSE AddWords(a, b, a.len - 1, UInt(0, BTORSIM_BV_TYPE_BW),
                  bv_new(a.width)))

\* neg without the complement: the one is added to bv itself.
Successor(bv) == bv_add(bv, bv_one(bv.width))

btorsim_bv_neg(bv) == bv_add(bv_not(bv), bv_one(bv.width))

btorsim_bv_sub(a, b) == bv_add(a, btorsim_bv_neg(b))

bv_inc(bv) == bv_add(bv, bv_one(bv.width))

btorsim_bv_dec(bv) == bv_add(bv, btorsim_bv_neg(bv_one(bv.width)))

bv_and(a, b) ==
  WithWords(a.width, [i \in 1..a.len |-> UAnd(a.bits[i], b.bits[i])])

btorsim_bv_implies(a, b) ==
  set_rem_bits_to_zero(
    WithWords(a.width, [i \in 1..a.len |-> UOr(UNot(a.bits[i]), b.bits[i])]))

bv_or(a, b) ==
  WithWords(a.width, [i \in 1..a.len |-> UOr(a.bits[i], b.bits[i])])

btorsim_bv_nand(a, b) ==
  set_rem_bits_to_zero(
    WithWords(a.width, [i \in 1..a.len |-> UNot(UAnd(a.bits[i], b.bits[i]))]))

btorsim_bv_nor(a, b) ==
  set_rem_bits_to_zero(
    WithWords(a.width, [i \in 1..a.len |-> UNot(UOr(a.bits[i], b.bits[i]))]))

bv_xnor(a, b) ==
  set_rem_bits_to_zero(
    WithWords(a.width, [i \in 1..a.len |-> UXor(a.bits[i], UNot(b.bits[i]))]))

bv_xor(a, b) ==
  WithWords(a.width, [i \in 1..a.len |-> UXor(a.bits[i], b.bits[i])])

bv_eq(a, b) ==
  btorsim_bv_set_bit(bv_new(1), 0, IF a.bits = b.bits THEN 1 ELSE 0)

bv_neq(a, b) ==
  btorsim_bv_set_bit(bv_new(1), 0, IF a.bits = b.bits THEN 0 ELSE 1)

\* The first index at which the words of a and b differ, or a->len.
find_diff_index(a, b) ==
  IF a.bits = b.bits THEN a.len
  ELSE CHOOSE i \in 0..(a.len - 1) :
         /\ Word(a, i) # Word(b, i)
         /\ \A j \in 0..(i - 1) : Word(a, j) = Word(b, j)

btorsim_bv_ult(a, b) ==
  Only({btorsim_bv_set_bit(bv_new(1), 0,
          IF i = a.len \/ ~ULess(Word(a, i), Word(b, i)) THEN 0 ELSE 1) :
        i \in {find_diff_index(a, b)}})

btorsim_bv_ulte(a, b) ==
  Only({btorsim_bv_set_bit(bv_new(1), 0,
          IF i < a.len /\ ULess(Word(b, i), Word(a, i)) THEN 0 ELSE 1) :
        i \in {find_diff_index(a, b)}})

\* slt without the signs.
UnsignedLess(a, b) == btorsim_bv_ult(a, b)

btorsim_bv_slt(a, b) ==
  Only({btorsim_bv_set_bit(bv_new(1), 0,
          IF s.a = s.b
          THEN (IF s.i = a.len \/ ~ULess(Word(a, s.i), Word(b, s.i))
                THEN 0 ELSE 1)
          ELSE (IF s.a # 0 /\ s.b = 0 THEN 1 ELSE 0)) :
        s \in {[a |-> bv_get_bit(a, a.width - 1),
                b |-> bv_get_bit(b, b.width - 1),
                i |-> find_diff_index(a, b)]}})

btorsim_bv_slte(a, b) ==
  Only({btorsim_bv_set_bit(bv_new(1), 0,
          IF s.a = s.b
          THEN (IF s.i < a.len /\ ULess(Word(b, s.i), Word(a, s.i))
                THEN 0 ELSE 1)
          ELSE (IF s.a # 0 /\ s.b = 0 THEN 1 ELSE 0)) :
        s \in {[a |-> bv_get_bit(a, a.width - 1),
                b |-> bv_get_bit(b, b.width - 1),
                i |-> find_diff_index(a, b)]}})

bv_compare(a, b) ==
  IF a.width # b.width THEN -1
  ELSE Only({IF i = a.len THEN 0
             ELSE IF ULess(Word(b, i), Word(a, i)) THEN 1 ELSE -1 :
             i \in {find_diff_index(a, b)}})

\* ~(BTORSIM_BV_TYPE) 0
AllOnes == UNot(UInt(0, BTORSIM_BV_TYPE_BW))

btorsim_bv_redand(bv) ==
  Only({btorsim_bv_set_bit(bv_new(1), 0,
          IF /\ Word(bv, 0) = mask0
             /\ \A i \in 1..(bv.len - 1) : Word(bv, i) = AllOnes
          THEN 1 ELSE 0) :
        mask0 \in {IF bv.width = BTORSIM_BV_TYPE_BW * bv.len THEN AllOnes
                   ELSE BTOR2_MASK_REM_BITS(bv)}})

btorsim_bv_redor(bv) ==
  btorsim_bv_set_bit(bv_new(1), 0, IF bv_is_zero(bv) THEN 0 ELSE 1)

btorsim_bv_ite(c, t, e) ==
  Only({WithWords(t.width,
          [i \in 1..t.len |-> UOr(UAnd(cc, t.bits[i]),
                                  UAnd(UNot(cc), e.bits[i]))]) :
        cc \in {IF bv_get_bit(c, 0) # 0 THEN AllOnes
                ELSE UInt(0, BTORSIM_BV_TYPE_BW)}})

\* The loop of sll_bv from the words i of a and j of res, v the bits
\* carried out of the word before.
RECURSIVE SllLoop(_, _, _, _, _, _)
SllLoop(a, k, i, j, v, res) ==
  Only({IF i = 0 \/ j = 0 THEN w.res
        ELSE SllLoop(a, k, i - 1, j - 1, w.v, w.res) :
        w \in {[res |-> SetWord(res, j, IF k = 0 THEN Word(a, i)
                                        ELSE UOr(v, UShl(Word(a, i), k))),
                v |-> IF k = 0 THEN Word(a, i)
                      ELSE UShr(Word(a, i), BTORSIM_BV_TYPE_BW - k)]}})

\* shift is a uint32_t.
sll_bv(a, shift) ==
  IF ~ULess(shift, UInt(a.width, 32)) THEN bv_new(a.width)
  ELSE set_rem_bits_to_zero(
         SllLoop(a, UVal(shift) % BTORSIM_BV_TYPE_BW, a.len - 1,
                 a.len - 1 - UVal(shift) \div BTORSIM_BV_TYPE_BW,
                 UInt(0, BTORSIM_BV_TYPE_BW), bv_new(a.width)))

\* The uint64_t read from b is converted to the uint32_t parameter.
btorsim_bv_sll(a, b) == sll_bv(a, Conv(btorsim_bv_to_uint64(b), 32))

RECURSIVE SrlLoop(_, _, _, _, _, _)
SrlLoop(a, k, i, j, v, res) ==
  IF ~(i < a.len /\ j < a.len) THEN res
  ELSE SrlLoop(a, k, i + 1, j + 1,
               IF k = 0 THEN Word(a, i)
               ELSE UShl(Word(a, i), BTORSIM_BV_TYPE_BW - k),
               SetWord(res, j, IF k = 0 THEN Word(a, i)
                               ELSE UOr(v, UShr(Word(a, i), k))))

btorsim_bv_srl(a, b) ==
  Only({IF ~ULess(shift, UInt(a.width, 64)) THEN bv_new(a.width)
        ELSE SrlLoop(a, UVal(shift) % BTORSIM_BV_TYPE_BW, 0,
                     UVal(shift) \div BTORSIM_BV_TYPE_BW,
                     UInt(0, BTORSIM_BV_TYPE_BW), bv_new(a.width)) :
        shift \in {btorsim_bv_to_uint64(b)}})

btorsim_bv_sra(a, b) ==
  set_rem_bits_to_zero(
    IF btorsim_bv_is_true(bv_not(a))
    THEN bv_not(btorsim_bv_srl(bv_not(a), b))
    ELSE btorsim_bv_copy(btorsim_bv_srl(a, b)))

\* Above 64 bits the product is the sum of the a << i for the bits i of b.
RECURSIVE MulLoop(_, _, _, _)
MulLoop(a, b, i, res) ==
  IF i >= a.width THEN res
  ELSE MulLoop(a, b, i + 1,
               bv_add(res, sll_bv(IF bv_get_bit(b, i) # 0
                                  THEN btorsim_bv_copy(a)
                                  ELSE bv_new(a.width), UInt(i, 32))))

btorsim_bv_mul(a, b) ==
  IF a.width <= 64
  THEN btorsim_bv_uint64_to_bv(
         UMul(btorsim_bv_to_uint64(a), btorsim_bv_to_uint64(b)), a.width)
  ELSE MulLoop(a, b, 0, bv_new(a.width))

UINT64_MAX == UNot(UInt(0, 64))

\* One turn of the loop of udiv_urem_bv, for the bit i of a.
DivBit(a, b, i, st) ==
  Only({IF \/ btorsim_bv_is_true(btorsim_bv_ult(b, rm))
           \/ btorsim_bv_is_true(bv_eq(b, rm))
        THEN [quot |-> btorsim_bv_set_bit(st.quot, i, 1),
              rem |-> bv_add(rm, btorsim_bv_neg(b))]
        ELSE [quot |-> st.quot, rem |-> rm] :
        rm \in {btorsim_bv_set_bit(sll_bv(st.rem, UInt(1, 32)), 0,
                                   bv_get_bit(a, i))}})

\* Above 64 bits the long division of a by b: the turns of the loop for the
\* bits hi down to lo of a.
RECURSIVE DivLoop(_, _, _, _, _)
DivLoop(a, b, hi, lo, st) ==
  IF hi < lo THEN st
  ELSE IF hi = lo THEN DivBit(a, b, hi, st)
  ELSE Only({DivLoop(a, b, (hi + lo + 1) \div 2 - 1, lo, up) :
             up \in {DivLoop(a, b, hi, (hi + lo + 1) \div 2, st)}})

\* A division by zero that gives zero.
ZeroQuotient(x, width) ==
  [quot |-> bv_new(width), rem |-> btorsim_bv_uint64_to_bv(x, width)]

\* The branch y == 0 of udiv_urem_bv, for the dividend x of width bits.
DivideByZero(x, width) ==
  [quot |-> btorsim_bv_uint64_to_bv(UINT64_MAX, width),
   rem |-> btorsim_bv_uint64_to_bv(x, width)]

udiv_urem_bv(a, b) ==
  IF a.width <= 64
  THEN Only({IF p.y = UInt(0, 64)
             THEN DivideByZero(p.x, a.width)
             ELSE [quot |-> btorsim_bv_uint64_to_bv(UDiv(p.x, p.y), a.width),
                   rem |-> btorsim_bv_uint64_to_bv(UMod(p.x, p.y), a.width)] :
             p \in {[x |-> btorsim_bv_to_uint64(a),
                     y |-> btorsim_bv_to_uint64(b)]}})
  ELSE DivLoop(a, b, a.width - 1, 0,
               [quot |-> bv_new(a.width), rem |-> bv_new(a.width)])

btorsim_bv_udiv(a, b) == udiv_urem_bv(a, b).quot

btorsim_bv_urem(a, b) == udiv_urem_bv(a, b).rem

\* The loop of btorsim_bv_slice for the bits lo to hi of the result, the
\* bit j of which is the bit lower + j of bv.
RECURSIVE SliceLoop(_, _, _, _, _)
SliceLoop(bv, lower, lo, hi, res) ==
  IF hi < lo THEN res
  ELSE IF hi = lo
  THEN btorsim_bv_set_bit(res, lo, bv_get_bit(bv, lower + lo))
  ELSE Only({SliceLoop(bv, lower, (lo + hi) \div 2 + 1, hi, low) :
             low \in {SliceLoop(bv, lower, lo, (lo + hi) \div 2, res)}})

btorsim_bv_slice(bv, upper, lower) ==
  SliceLoop(bv, lower, 0, upper - lower, bv_new(upper - lower + 1))

btorsim_bv_sdiv(a, b) ==
  IF a.width = 1 THEN bv_not(bv_and(bv_not(a), b))
  ELSE Only({Only({IF btorsim_bv_is_true(bv_xor(s.a, s.b))
                   THEN btorsim_bv_copy(btorsim_bv_neg(udiv))
                   ELSE btorsim_bv_copy(udiv) :
                   udiv \in {btorsim_bv_udiv(
                               IF btorsim_bv_is_true(s.a)
                               THEN btorsim_bv_copy(btorsim_bv_neg(a))
                               ELSE btorsim_bv_copy(a),
                               IF btorsim_bv_is_true(s.b)
                               THEN btorsim_bv_copy(btorsim_bv_neg(b))
                               ELSE btorsim_bv_copy(b))}}) :
             s \in {[a |-> btorsim_bv_slice(a, a.width - 1, a.width - 1),
                     b |-> btorsim_bv_slice(b, b.width - 1, b.width - 1)]}})

\* srem without the signs.
UnsignedRem(a, b) == btorsim_bv_urem(a, b)

btorsim_bv_srem(a, b) ==
  IF a.width = 1 THEN bv_and(a, bv_not(b))
  ELSE Only({Only({IF btorsim_bv_is_true(s.a)
                   THEN btorsim_bv_copy(btorsim_bv_neg(urem))
                   ELSE btorsim_bv_copy(urem) :
                   urem \in {btorsim_bv_urem(
                               IF btorsim_bv_is_true(s.a)
                               THEN btorsim_bv_copy(btorsim_bv_neg(a))
                               ELSE btorsim_bv_copy(a),
                               IF btorsim_bv_is_true(s.b)
                               THEN btorsim_bv_copy(btorsim_bv_neg(b))
                               ELSE btorsim_bv_copy(b))}}) :
             s \in {[a |-> btorsim_bv_slice(a, a.width - 1, a.width - 1),
                     b |-> btorsim_bv_slice(b, b.width - 1, b.width - 1)]}})

\* The second loop of btorsim_bv_concat when b does not end on a word: the
\* words of a from index i are shifted by k into res from index j, v the
\* bits carried over.
RECURSIVE ConcatLoop(_, _, _, _, _, _)
ConcatLoop(a, k, i, j, v, res) ==
  IF i < 0 THEN [res |-> res, j |-> j, v |-> v]
  ELSE ConcatLoop(a, k, i - 1, j - 1,
                  UShr(Word(a, i), BTORSIM_BV_TYPE_BW - k),
                  SetWord(res, j, UOr(v, UShl(Word(a, i), k))))

\* memcpy (res->bits + res->len - bv->len, bv->bits, ...): the words of bv
\* become the last words of res.
CopyLast(res, bv) ==
  [res EXCEPT !.bits =
     Tup([i \in 1..res.len |->
            IF i > res.len - bv.len THEN bv.bits[i - (res.len - bv.len)]
            ELSE res.bits[i]])]

btorsim_bv_concat(a, b) ==
  Only({IF b.width % BTORSIM_BV_TYPE_BW = 0
        THEN [res EXCEPT !.bits =
                Tup([i \in 1..res.len |->
                       IF i <= a.len THEN a.bits[i] ELSE res.bits[i]])]
        ELSE Only({IF l.j = 0 THEN SetWord(l.res, 0, l.v) ELSE l.res :
                   l \in {ConcatLoop(a, b.width % BTORSIM_BV_TYPE_BW,
                                     a.len - 1, res.len - b.len,
                                     Word(res, res.len - b.len), res)}}) :
        res \in {CopyLast(bv_new(a.width + b.width), b)}})

\* sext filling with zeros whatever the sign.
ZeroFilled(bv, len) == btorsim_bv_concat(bv_new(len), bv)

btorsim_bv_sext(bv, len) ==
  btorsim_bv_concat(IF bv_get_bit(bv, bv.width - 1) # 0 THEN bv_ones(len)
                    ELSE bv_new(len), bv)

btorsim_bv_uext(bv, len) == CopyLast(bv_new(bv.width + len), bv)

\* The loop of btorsim_bv_const for the bits lo to hi: a string is the
\* sequence of its characters, str[j] of the source being str[j + 1].
RECURSIVE ConstLoop(_, _, _, _, _)
ConstLoop(str, bw, lo, hi, res) ==
  IF hi < lo THEN res
  ELSE IF hi = lo
  THEN btorsim_bv_set_bit(res, lo, IF str[bw - 1 - lo + 1] = "0" THEN 0 ELSE 1)
  ELSE Only({ConstLoop(str, bw, (lo + hi) \div 2 + 1, hi, low) :
             low \in {ConstLoop(str, bw, lo, (lo + hi) \div 2, res)}})

btorsim_bv_const(str, bw) == ConstLoop(str, bw, 0, bw - 1, bv_new(bw))

bv_char_to_bv(assignment) == btorsim_bv_const(assignment, Len(assignment))

\* The uint32_t u of the generator as a word of the bits array.
WordOf(u) == UInt(u.lo, 16) \o UInt(u.hi, 16)

\* The first loop of btorsim_bv_new_random_bit_range: a draw for every word
\* but bits[0].
RECURSIVE RandomWords(_, _, _)
RandomWords(g, res, i) ==
  IF i >= res.len THEN [rng |-> g, res |-> res]
  ELSE Only({RandomWords(d.rng, SetWord(res, i, WordOf(d.res)), i + 1) :
             d \in {btorsim_rng_rand(g)}})

\* ((~0) >> n) - 1 is -2 for every n, the shift of the int -1 being
\* arithmetic, and 0xfffffffe as the uint32_t bound of the draw for bits[0].
\* The bits below lo and above up are cleared one by one in the source.
btorsim_bv_new_random_bit_range(g, bw, up, lo) ==
  Only({Only({[rng |-> d.rng,
               res |-> set_rem_bits_to_zero(
                 WithWords(bw,
                   [i \in 1..t.res.len |->
                      [j \in 1..BTORSIM_BV_TYPE_BW |->
                         IF (t.res.len - i) * BTORSIM_BV_TYPE_BW + j - 1 < lo
                            \/ ((t.res.len - i) * BTORSIM_BV_TYPE_BW + j - 1 > up
                                /\ (t.res.len - i) * BTORSIM_BV_TYPE_BW + j - 1 < bw)
                         THEN 0
                         ELSE SetWord(t.res, 0, WordOf(d.res)).bits[i][j]]]))] :
              d \in {btorsim_rng_pick_rand(t.rng, U32(0, 0),
                                           Sub32(UINT_MAX, U32(0, 1)))}}) :
        t \in {RandomWords(g, bv_new(bw), 1)}})

bv_new_random(g, bw) == btorsim_bv_new_random_bit_range(g, bw, bw - 1, 0)

\* ------------------------------------------------------ constants as strings

\* a without its leading '0' characters.
strip_zeroes(a) ==
  SubSeq(a, Cardinality({i \in 1..Len(a) : \A j \in 1..i : a[j] = "0"}) + 1,
         Len(a))

\* The sum of the binary strings x and y of one length and of the carry c,
\* from the last character to the first: s = x ^ y ^ c and
\* c = (x & y) | (x & c) | (y & c) on the characters '0' and '1'.
RECURSIVE SumChars(_, _, _, _, _)
SumChars(x, y, i, c, res) ==
  IF i = 0 THEN [s |-> res, c |-> c]
  ELSE Only({SumChars(x, y, i - 1, IF n >= 2 THEN "1" ELSE "0",
                      <<IF n % 2 = 1 THEN "1" ELSE "0">> \o res) :
             n \in {Cardinality({t \in {"x", "y", "c"} :
                                   \/ t = "x" /\ x[i] = "1"
                                   \/ t = "y" /\ y[i] = "1"
                                   \/ t = "c" /\ c = "1"})}})

\* str with '0' characters in front, n characters in all.
Padded(str, n) == [i \in 1..(n - Len(str)) |-> "0"] \o str

\* An iteration of the outer loop of mult_unbounded_bin_str: when res ends
\* with '1', b is added to the first blen characters of res; then res moves
\* one character to the right and the carry takes the first place.
MultStep(res, b) ==
  Only({<<sum.c>> \o SubSeq(sum.s, 1, Len(b))
          \o SubSeq(res, Len(b) + 1, Len(res) - 1) :
        sum \in {IF res[Len(res)] = "1"
                 THEN SumChars(b, SubSeq(res, 1, Len(b)), Len(b), "0", <<>>)
                 ELSE [s |-> SubSeq(res, 1, Len(b)), c |-> "0"]}})

RECURSIVE MultLoop(_, _, _)
MultLoop(res, b, i) ==
  IF i = 0 THEN res
  ELSE Only({MultLoop(step, b, i - 1) : step \in {MultStep(res, b)}})

mult_unbounded_bin_str(a, b) ==
  Only({IF s.a = <<>> THEN <<>>
        ELSE IF s.a = <<"1">> THEN b
        ELSE IF s.b = <<>> THEN <<>>
        ELSE IF s.b = <<"1">> THEN s.a
        ELSE MultLoop(Padded(s.a, Len(s.a) + Len(s.b)), s.b, Len(s.a)) :
        s \in {[a |-> strip_zeroes(a), b |-> strip_zeroes(b)]}})

add_unbounded_bin_str(a, b) ==
  Only({IF s.a = <<>> THEN s.b
        ELSE IF s.b = <<>> THEN s.a
        ELSE strip_zeroes(SumChars(Padded(s.a, s.rlen), Padded(s.b, s.rlen),
                                   s.rlen, "0", <<>>).s) :
        s \in {[a |-> strip_zeroes(a), b |-> strip_zeroes(b),
                rlen |-> (IF Len(strip_zeroes(a)) < Len(strip_zeroes(b))
                          THEN Len(strip_zeroes(b))
                          ELSE Len(strip_zeroes(a))) + 1]}})

digit2const_table ==
  <<<<>>, <<"1">>, <<"1", "0">>, <<"1", "1">>, <<"1", "0", "0">>,
    <<"1", "0", "1">>, <<"1", "1", "0">>, <<"1", "1", "1">>,
    <<"1", "0", "0", "0">>, <<"1", "0", "0", "1">>>>

\* The characters '0' + n for n below ten.
DecDigits == <<"0", "1", "2", "3", "4", "5", "6", "7", "8", "9">>

digit2const(ch) ==
  digit2const_table[(CHOOSE n \in 0..9 : DecDigits[n + 1] = ch) + 1]

\* The loop of dec_to_bin_str from the character p of str.
RECURSIVE DecLoop(_, _, _)
DecLoop(str, p, res) ==
  IF p > Len(str) THEN res
  ELSE Only({DecLoop(str, p + 1, sum) :
             sum \in {add_unbounded_bin_str(
                        mult_unbounded_bin_str(res, <<"1", "0", "1", "0">>),
                        digit2const(str[p]))}})

dec_to_bin_str(str) ==
  Only({IF Len(res) > 0 THEN res ELSE <<"0">> : res \in {DecLoop(str, 1, <<>>)}})

\* The test asserted on entry of btorsim_bv_constd: the constant fits the
\* width, a negative one as a two's complement number.
check_constd(str, width) ==
  Only({(((c.is_neg /\ ~c.is_min_val) \/ Len(c.bits) <= width)
         /\ (~c.is_neg \/ c.is_min_val \/ Len(c.bits) + 1 <= width)) :
        c \in {[is_neg |-> str[1] = "-",
                is_min_val |-> /\ str[1] = "-"
                               /\ b[1] = "1"
                               /\ \A i \in 2..Len(b) : b[i] = "0",
                bits |-> b] :
               b \in {dec_to_bin_str(IF str[1] = "-" THEN Tail(str)
                                     ELSE str)}}})

btorsim_bv_constd(str, bw) ==
  Only({Only({IF c.is_neg THEN btorsim_bv_neg(ext) ELSE ext :
              ext \in {IF Len(c.bits) < bw
                       THEN btorsim_bv_uext(bv_char_to_bv(c.bits),
                                            bw - Len(c.bits))
                       ELSE bv_char_to_bv(c.bits)}}) :
        c \in {[is_neg |-> str[1] = "-",
                bits |-> dec_to_bin_str(IF str[1] = "-" THEN Tail(str)
                                        ELSE str)]}})

\* to_char writing the bit 0 first.
LowBitFirst(bv) ==
  Tup([j \in 1..bv.width |-> IF bv_get_bit(bv, j - 1) # 0 THEN "1" ELSE "0"])

btorsim_bv_to_char(bv) ==
  Tup([j \in 1..bv.width |->
         IF bv_get_bit(bv, bv.width - j) # 0 THEN "1" ELSE "0"])

\* The index of the highest bit set in bv, or -1 for UINT_MAX.
get_first_one_bit_idx(bv) ==
  IF \A i \in 0..(bv.width - 1) : bv_get_bit(bv, i) = 0 THEN -1
  ELSE CHOOSE i \in 0..(bv.width - 1) :
         /\ bv_get_bit(bv, i) = 1
         /\ \A j \in (i + 1)..(bv.width - 1) : bv_get_bit(bv, j) = 0

\* The inner loop of btorsim_bv_to_dec_char: ch <<= 1 and ch += 1 for a
\* set bit, from the bit i of rem down.
RECURSIVE DigitLoop(_, _, _)
DigitLoop(rem, i, ch) ==
  IF i < 0 THEN ch ELSE DigitLoop(rem, i - 1, 2 * ch + bv_get_bit(rem, i))

\* The outer loop: the digits are pushed from the last one, and the result
\* is the stack from its top.
RECURSIVE DecCharLoop(_, _, _)
DecCharLoop(tmp, ten, stack) ==
  IF bv_is_zero(tmp) THEN stack
  ELSE Only({DecCharLoop(d.div, ten,
                         <<DecDigits[DigitLoop(d.rem,
                                               get_first_one_bit_idx(d.rem),
                                               0) + 1]>> \o stack) :
             d \in {[div |-> btorsim_bv_udiv(tmp, ten),
                     rem |-> btorsim_bv_urem(tmp, ten)]}})

btorsim_bv_to_dec_char(bv) ==
  IF bv_is_zero(bv) THEN <<"0">>
  ELSE IF bv.width < 4
  THEN DecCharLoop(btorsim_bv_uext(bv, 4 - bv.width),
                   btorsim_bv_uint64_to_bv(UInt(10, 64), 4), <<>>)
  ELSE DecCharLoop(btorsim_bv_copy(bv),
                   btorsim_bv_uint64_to_bv(UInt(10, 64), bv.width), <<>>)

\* ------------------------------------------------------------------ models
\* The BTOR2 models the simulator is run on.  A line is its tag, the width of
\* its sort and its arguments; a negative argument is a negated node.  The
\* line's id is its position.

Ln(tag, w, args) == [tag |-> tag, width |-> w, args |-> args]

\* A 2-bit counter: init 0, next s + 1, bad s = 3.
CounterModel ==
  << Ln("sort", 2, <<>>),       \*  1 sort bitvec 2
     Ln("sort", 1, <<>>),       \*  2 sort bitvec 1
     Ln("zero", 2, <<>>),       \*  3 zero 1
     Ln("state", 2, <<>>),      \*  4 state 1
     Ln("init", 2, <<4, 3>>),   \*  5 init 1 4 3
     Ln("one", 2, <<>>),        \*  6 one 1
     Ln("add", 2, <<4, 6>>),    \*  7 add 1 4 6
     Ln("next", 2, <<4, 7>>),   \*  8 next 1 4 7
     Ln("ones", 2, <<>>),       \*  9 ones 1
     Ln("eq", 1, <<4, 9>>),     \* 10 eq 2 4 9
     Ln("bad", 0, <<10>>) >>    \* 11 bad 10

\* Two 1-bit inputs i and j, the constraint 'not j', the bads i and 1.
InputModel ==
  << Ln("sort", 1, <<>>),       \* 1 sort bitvec 1
     Ln("input", 1, <<>>),      \* 2 input 1
     Ln("input", 1, <<>>),      \* 3 input 1
     Ln("not", 1, <<3>>),       \* 4 not 1 3
     Ln("constraint", 0, <<4>>),\* 5 constraint 4
     Ln("bad", 0, <<2>>),       \* 6 bad 2
     Ln("one", 1, <<>>),        \* 7 one 1
     Ln("bad", 0, <<7>>) >>     \* 8 bad 7

\* A state s with neither init nor next, a state c with init 0 and next 1,
\* and the bad s & c.
FreeStateModel ==
  << Ln("sort", 1, <<>>),       \* 1 sort bitvec 1
     Ln("state", 1, <<>>),      \* 2 state 1
     Ln("state", 1, <<>>),      \* 3 state 1
     Ln("zero", 1, <<>>),       \* 4 zero 1
     Ln("init", 1, <<3, 4>>),   \* 5 init 1 3 4
     Ln("one", 1, <<>>),        \* 6 one 1
     Ln("next", 1, <<3, 6>>),   \* 7 next 1 3 6
     Ln("and", 1, <<2, 3>>),    \* 8 and 1 2 3
     Ln("bad", 0, <<8>>) >>     \* 9 bad 8

\* Negated arguments: a state t with next ~t, the bad ~(i & ~t) and the
\* constraint ~i.
NegModel ==
  << Ln("sort", 1, <<>>),       \* 1 sort bitvec 1
     Ln("input", 1, <<>>),      \* 2 input 1
     Ln("state", 1, <<>>),      \* 3 state 1
     Ln("next", 1, <<3, -3>>),  \* 4 next 1 3 -3
     Ln("and", 1, <<2, -3>>),   \* 5 and 1 2 -3
     Ln("bad", 0, <<-5>>),      \* 6 bad -5
     Ln("constraint", 0, <<-2>>) >> \* 7 constraint -2

\* A state v with init 1 and no next, and the bad v.
InitOnlyModel ==
  << Ln("sort", 1, <<>>),       \* 1 sort bitvec 1
     Ln("state", 1, <<>>),      \* 2 state 1
     Ln("one", 1, <<>>),        \* 3 one 1
     Ln("init", 1, <<2, 3>>),   \* 4 init 1 2 3
     Ln("bad", 0, <<2>>) >>     \* 5 bad 2

\* The bad 'i iff j' of two 1-bit inputs.
IffModel ==
  << Ln("sort", 1, <<>>),       \* 1 sort bitvec 1
     Ln("input", 1, <<>>),      \* 2 input 1
     Ln("input", 1, <<>>),      \* 3 input 1
     Ln("iff", 1, <<2, 3>>),    \* 4 iff 1 2 3
     Ln("bad", 0, <<4>>) >>     \* 5 bad 4

\* No bad property: a state u with init 0 and next 'not u'.
NoBadModel ==
  << Ln("sort", 1, <<>>),       \* 1 sort bitvec 1
     Ln("state", 1, <<>>),      \* 2 state 1
     Ln("zero", 1, <<>>),       \* 3 zero 1
     Ln("init", 1, <<2, 3>>),   \* 4 init 1 2 3
     Ln("not", 1, <<2>>),       \* 5 not 1 2
     Ln("next", 1, <<2, 5>>) >> \* 6 next 1 2 5

Models ==
  << CounterModel, InputModel, FreeStateModel, NegModel, InitOnlyModel,
     IffModel, NoBadModel >>

\* btor2parser_max_id: one more than the largest id, so that the tables are
\* indexed 0 .. num_format_lines - 1 and id 0 is never a line.
num_format_lines(m) == Len(Models[m]) + 1

Ids(m) == 0 .. (num_format_lines(m) - 1)

Abs(i) == IF i < 0 THEN -i ELSE i

\* The ids of the lines of model m with the given tag, in declaration order.
RECURSIVE TagIds(_, _, _)
TagIds(m, tag, n) ==
  IF n = 0 THEN <<>>
  ELSE IF Models[m][n].tag = tag THEN Append(TagIds(m, tag, n - 1), n)
  ELSE TagIds(m, tag, n - 1)

inputs(m) == TagIds(m, "input", Len(Models[m]))

states(m) == TagIds(m, "state", Len(Models[m]))

bads(m) == TagIds(m, "bad", Len(Models[m]))

constraints(m) == TagIds(m, "constraint", Len(Models[m]))

\* inits[id] and nexts[id]: the id of the init (next) line of state id, 0 when
\* there is none.
RECURSIVE LineFor(_, _, _, _)
LineFor(m, tag, id, n) ==
  IF n = 0 THEN 0
  ELSE IF Models[m][n].tag = tag /\ Models[m][n].args[1] = id THEN n
  ELSE LineFor(m, tag, id, n - 1)

inits(m, id) == LineFor(m, "init", id, Len(Models[m]))

nexts(m, id) == LineFor(m, "next", id, Len(Models[m]))

\* The tags parse_model_line accepts; any other tag ends the run with
\* "unsupported".
ModelTags ==
  {"bad", "constraint", "init", "input", "next", "sort", "state", "add", "and",
   "concat", "const", "constd", "consth", "dec", "eq", "implies", "inc", "ite",
   "mul", "nand", "neg", "neq", "nor", "not", "one", "ones", "or", "output",
   "redand", "redor", "sdiv", "sext", "sgt", "sgte", "slice", "sll", "slt",
   "slte", "sra", "srem", "srl", "sub", "udiv", "uext", "ugt", "ugte", "ult",
   "ulte", "urem", "xnor", "xor", "zero"}

\* TRUE when parse_model reads the whole model without dying.
parse_model(m) == \A n \in 1..Len(Models[m]) : Models[m][n].tag \in ModelTags

\* --------------------------------------------------------------- evaluator

\* The operator of line l applied to the values a of its arguments; NoBV for
\* a tag outside the switch of simulate.
ApplyOp(l, a) ==
  CASE l.tag = "add" -> btorsim_bv_add(a[1], a[2])
    [] l.tag = "and" -> btorsim_bv_and(a[1], a[2])
    [] l.tag = "eq" -> btorsim_bv_eq(a[1], a[2])
    [] l.tag = "inc" -> btorsim_bv_inc(a[1])
    [] l.tag = "neq" -> btorsim_bv_neq(a[1], a[2])
    [] l.tag = "not" -> btorsim_bv_not(a[1])
    [] l.tag = "one" -> btorsim_bv_one(l.width)
    [] l.tag = "ones" -> btorsim_bv_ones(l.width)
    [] l.tag = "or" -> btorsim_bv_or(a[1], a[2])
    [] l.tag \in {"iff", "xnor"} -> btorsim_bv_xnor(a[1], a[2])
    [] l.tag = "xor" -> btorsim_bv_xor(a[1], a[2])
    [] l.tag = "zero" -> btorsim_bv_new(l.width)
    [] OTHER -> NoBV

\* An update_current_state that stores nothing.
DropUpdate(cs, id, bv) == cs

update_current_state(cs, id, bv) == [cs EXCEPT ![id] = bv]

\* simulate (id) on the table cs: the table afterwards, the value returned
\* and whether the call ended in die.  A node with a value is not computed
\* again; otherwise its arguments are simulated in order (SimulateArgs, from
\* the i-th on), the operator is applied and the result is stored.  A
\* negative id returns the complement and stores the plain value.
RECURSIVE simulate(_, _, _), SimulateArgs(_, _, _, _)
SimulateArgs(m, args, i, st) ==
  IF i > Len(args) \/ st.die THEN st
  ELSE Only({SimulateArgs(m, args, i + 1,
                [cs |-> sim.cs, args |-> Append(st.args, sim.res),
                 die |-> sim.die]) :
            sim \in {simulate(m, st.cs, args[i])}})

simulate(m, cs, sid) ==
  IF cs[Abs(sid)] # NoBV
  THEN [cs |-> cs, die |-> FALSE,
        res |-> IF sid < 0 THEN btorsim_bv_not(cs[Abs(sid)]) ELSE cs[Abs(sid)]]
  ELSE IF sid = 0 THEN [cs |-> cs, res |-> NoBV, die |-> TRUE]
  ELSE
    Only({Only({IF st.die \/ res = NoBV
                  THEN [cs |-> st.cs, res |-> NoBV, die |-> TRUE]
                  ELSE [cs |-> update_current_state(st.cs, Abs(sid), res),
                        die |-> FALSE,
                        res |-> IF sid < 0 THEN btorsim_bv_not(res) ELSE res] :
                res \in {IF st.die THEN NoBV
                         ELSE ApplyOp(Models[m][Abs(sid)], st.args)}}) :
         st \in {SimulateArgs(m, Models[m][Abs(sid)].args, 1,
           [cs |-> cs, args |-> <<>>, die |-> FALSE])}})

\* The value of node sid computed afresh from the values that the table cs
\* holds for the inputs and states, with no use of the values cached for
\* operator nodes.
RECURSIVE Eval(_, _, _)
Eval(m, cs, sid) ==
  LET id == Abs(sid)
      l == Models[m][id]
      n == Len(l.args)
      v == IF l.tag \in {"input", "state"} THEN cs[id]
           ELSE Only({ApplyOp(l, a) :
                     a \in {[i \in 1..3 |->
                        IF i <= n THEN Eval(m, cs, l.args[i]) ELSE NoBV]}})
  IN IF sid < 0 THEN Only({btorsim_bv_not(w) : w \in {v}}) ELSE v

\* ------------------------------------------------------------------- state

VARIABLES
  model,                 \* the index in Models of the model read
  checking_mode,         \* a witness file was given
  print_trace,           \* 0 with -c
  print_states,          \* 1 with --states
  fake_bad,              \* -b, or -1
  r,                     \* -r in random mode
  seed,                  \* -s in random mode
  rng,
  current_state,
  next_state,
  reached_bads,
  constraints_violated,
  num_unreached_bads,
  k,                     \* the cycle (random mode) or frame (checking mode)
  pc,                    \* the function about to run
  out,                   \* the lines written to standard output
  status,                \* "running", "exit0", "exit1", "crash" or "abort"
  err,                   \* the diagnostic written to standard error
  witness,               \* the lines of the witness file not yet read
  free,                  \* the witness file is chosen line by line
  nread,                 \* the lines read from a freely chosen witness
  look,                  \* the line handed back by prev_char, or NoLine
  sat,                   \* the witness being parsed began with 'sat'
  count_witnesses,
  claimed_bad_witnesses,
  found_end_of_witness,
  found_initial_frame,
  last,                  \* the assignment line read last, or NoLast
  seen,                  \* per simulated cycle, which bads and constraints held
  expect,                \* per state, the next value computed afresh
  ntrans,                \* the calls of transition so far
  nsteps,                \* the calls of simulate_step so far
  twin,                  \* a second run on the same model, flags and seed
  prior,                 \* the run whose trace is being checked, or NoRun
  calc                   \* the library call made last, or NoCalc

options == <<model, checking_mode, print_trace, print_states, fake_bad, r, seed>>

tables == <<current_state, next_state>>

verdicts == <<reached_bads, constraints_violated, num_unreached_bads>>

reader == <<witness, free, nread, look, sat, count_witnesses,
            claimed_bad_witnesses, found_end_of_witness, found_initial_frame,
            last>>

ghosts == <<seen, expect, ntrans, nsteps, twin>>

vars == <<options, rng, tables, verdicts, k, pc, out, status, err, reader,
          ghosts, prior, calc>>

\* A line of the trace or of a witness: '#n', '@n', 'n bits', '.', 'sat',
\* 'unsat', the property list of a header (bits holds the indices, n is 1
\* when the list names a justice property), or the end of the file.
Line(t, n, bits) == [t |-> t, n |-> n, bits |-> bits]

NoLine == Line("none", 0, <<>>)

EOF == Line("eof", 0, <<>>)

NoLast == [line |-> NoLine, part |-> "none", k |-> 0, was |-> NoBV, done |-> {}]

\* The second run has not parted from this one.
NoTwin == [diverged |-> FALSE]

NoRun == [reached_bads |-> <<>>, out |-> <<>>, fake_bad |-> -1, valid |-> FALSE]

\* No call of the bit-vector library or of the generator has been made.
NoCalc == [op |-> "none", args |-> <<>>, res |-> <<>>]

EmptyTable(m) == [id \in Ids(m) |-> NoBV]

\* The process at the entry of main, for every command line: a model, with
\* or without a witness file, with or without -c (print_trace = 0) and
\* --states, and in random mode -b, -r and -s.  --states is read only
\* together with print_trace, so it is drawn only when the trace is printed.
Init ==
  /\ model \in 1..Len(Models)
  /\ checking_mode \in BOOLEAN
  /\ print_trace \in BOOLEAN
  /\ print_states \in (IF print_trace THEN BOOLEAN ELSE {FALSE})
  /\ IF checking_mode
     THEN fake_bad = -1 /\ r = -1 /\ seed = -1
     ELSE /\ fake_bad \in -1..Len(bads(model))
          /\ r \in 0..MaxR
          /\ seed \in 0..MaxSeed
  /\ rng = [z |-> U32(0, 0), w |-> U32(0, 0)]
  /\ current_state = EmptyTable(model)
  /\ next_state = EmptyTable(model)
  /\ reached_bads = <<>>
  /\ constraints_violated = -1
  /\ num_unreached_bads = 0
  /\ k = 0
  /\ pc = "main"
  /\ out = <<>>
  /\ status = "running"
  /\ err = ""
  /\ witness = <<>>
  /\ free = checking_mode
  /\ nread = 0
  /\ look = NoLine
  /\ sat = FALSE
  /\ count_witnesses = 0
  /\ claimed_bad_witnesses = <<>>
  /\ found_end_of_witness = FALSE
  /\ found_initial_frame = FALSE
  /\ last = NoLast
  /\ seen = <<>>
  /\ expect = EmptyTable(model)
  /\ ntrans = 0
  /\ nsteps = 0
  /\ twin = NoTwin
  /\ prior = NoRun
  /\ calc = NoCalc

\* die and parse_error: the message goes to standard error and the process
\* exits with status 1.
Exit1(msg) == status' = "exit1" /\ err' = msg /\ pc' = "done"

\* ------------------------------------------------------------------- main

\* main up to the call of random_simulation or
\* parse_and_check_all_witnesses: the model is parsed, the faked bad is
\* checked against the number of bads, the generator is seeded and the
\* header of the trace is written.
main ==
  /\ pc = "main" /\ status = "running"
  /\ IF ~parse_model(model)
     THEN /\ Exit1("unsupported")
          /\ UNCHANGED <<rng, out, verdicts>>
     ELSE /\ reached_bads' = [i \in 1..Len(bads(model)) |-> -1]
          /\ num_unreached_bads' = Len(bads(model))
          /\ UNCHANGED constraints_violated
          /\ IF fake_bad >= Len(bads(model))
             THEN /\ Exit1("invalid faked bad state property number")
                  /\ UNCHANGED <<rng, out>>
             ELSE IF checking_mode
             THEN /\ pc' = "parse_and_check_witness"
                  /\ UNCHANGED <<rng, out, status, err>>
             ELSE /\ rng' = btorsim_rng_init(seed)
                  /\ out' = IF print_trace /\ fake_bad >= 0
                            THEN <<Line("sat", 0, <<>>), Line("b", 0, <<fake_bad>>)>>
                            ELSE <<>>
                  /\ pc' = "initialize_states"
                  /\ UNCHANGED <<status, err>>
  /\ UNCHANGED <<calc, options, tables, k, reader, ghosts, prior>>

\* --------------------------------------------- initialize_states / inputs

\* The loop of initialize_states from the i-th state on; st holds the table,
\* the generator, the output and whether simulate died.
RECURSIVE InitStatesFrom(_, _, _, _, _)
InitStatesFrom(m, randomly, ptrace, i, st) ==
  IF i > Len(states(m)) \/ st.die THEN st
  ELSE IF st.cs[states(m)[i]] # NoBV
  THEN InitStatesFrom(m, randomly, ptrace, i + 1, st)
  ELSE IF inits(m, states(m)[i]) # 0
  THEN Only({IF sim.die THEN [st EXCEPT !.die = TRUE]
              ELSE InitStatesFrom(m, randomly, ptrace, i + 1,
                     [st EXCEPT !.cs = update_current_state(sim.cs, states(m)[i],
                                                            sim.res)]) :
            sim \in {simulate(m, st.cs, Models[m][inits(m, states(m)[i])].args[2])}})
  ELSE Only({InitStatesFrom(m, randomly, ptrace, i + 1,
                [cs |-> update_current_state(st.cs, states(m)[i], rnd.bv),
                 rng |-> rnd.rng,
                 out |-> IF ptrace
                         THEN Append(st.out,
                                Line("a", i - 1,
                                     btorsim_bv_print_without_new_line(rnd.bv)))
                         ELSE st.out,
                 die |-> FALSE]) :
            rnd \in {IF randomly
            THEN btorsim_bv_new_random(st.rng, Models[m][states(m)[i]].width)
            ELSE [rng |-> st.rng, bv |-> btorsim_bv_new(Models[m][states(m)[i]].width)]}})

AfterInitStates ==
  InitStatesFrom(model, ~checking_mode, print_trace, 1,
    [cs |-> current_state, rng |-> rng,
     out |-> IF print_trace THEN Append(out, Line("#", 0, <<>>)) ELSE out,
     die |-> FALSE])

initialize_states ==
  /\ pc = "initialize_states" /\ status = "running"
  /\ \E st \in {AfterInitStates} :
        /\ current_state' = st.cs
        /\ rng' = st.rng
        /\ out' = st.out
        /\ IF st.die THEN Exit1("can not randomly simulate operator")
           ELSE pc' = "initialize_inputs" /\ UNCHANGED <<status, err>>
  /\ UNCHANGED <<calc, options, next_state, verdicts, k, reader, ghosts, prior>>

\* The loop of initialize_inputs from the i-th input on.
RECURSIVE InitInputsFrom(_, _, _, _, _)
InitInputsFrom(m, randomize, ptrace, i, st) ==
  IF i > Len(inputs(m)) THEN st
  ELSE IF st.cs[inputs(m)[i]] # NoBV
  THEN InitInputsFrom(m, randomize, ptrace, i + 1, st)
  ELSE Only({InitInputsFrom(m, randomize, ptrace, i + 1,
                [cs |-> update_current_state(st.cs, inputs(m)[i], rnd.bv),
                 rng |-> rnd.rng,
                 out |-> IF ptrace
                         THEN Append(st.out,
                                Line("a", i - 1,
                                     btorsim_bv_print_without_new_line(rnd.bv)))
                         ELSE st.out,
                 die |-> FALSE]) :
            rnd \in {IF randomize
            THEN btorsim_bv_new_random(st.rng, Models[m][inputs(m)[i]].width)
            ELSE [rng |-> st.rng, bv |-> btorsim_bv_new(Models[m][inputs(m)[i]].width)]}})

AfterInitInputs ==
  InitInputsFrom(model, ~checking_mode, print_trace, 1,
    [cs |-> current_state, rng |-> rng,
     out |-> IF print_trace THEN Append(out, Line("@", k, <<>>)) ELSE out,
     die |-> FALSE])

initialize_inputs ==
  /\ pc = "initialize_inputs" /\ status = "running"
  /\ \E st \in {AfterInitInputs} :
        /\ current_state' = st.cs
        /\ rng' = st.rng
        /\ out' = st.out
  /\ pc' = "simulate_step"
  /\ UNCHANGED <<calc, options, next_state, verdicts, k, status, err, reader, ghosts,
                 prior>>

\* ----------------------------------------------------------- simulate_step

\* The tags whose lines simulate_step does not simulate.
SkippedTags ==
  {"sort", "init", "next", "bad", "constraint", "fair", "justice", "output"}

\* The first loop of simulate_step, from id i on.
RECURSIVE SimulateAllFrom(_, _, _)
SimulateAllFrom(m, i, st) ==
  IF i >= num_format_lines(m) \/ st.die THEN st
  ELSE IF i = 0 \/ Models[m][i].tag \in SkippedTags
  THEN SimulateAllFrom(m, i + 1, st)
  ELSE Only({SimulateAllFrom(m, i + 1, [cs |-> sim.cs, die |-> sim.die]) :
            sim \in {simulate(m, st.cs, i)}})

\* The second loop of simulate_step, from the i-th state on: the next value
\* of every state goes to next_state; 'assert (!next_state[state->id])'
\* fails when the slot is taken.
RECURSIVE NextStatesFrom(_, _, _, _)
NextStatesFrom(m, randomize, i, st) ==
  IF i > Len(states(m)) \/ st.die \/ st.abort THEN st
  ELSE IF nexts(m, states(m)[i]) # 0
  THEN Only({IF sim.die THEN [st EXCEPT !.die = TRUE]
              ELSE IF st.ns[states(m)[i]] # NoBV THEN [st EXCEPT !.abort = TRUE]
              ELSE NextStatesFrom(m, randomize, i + 1,
                     [st EXCEPT !.cs = sim.cs, !.ns[states(m)[i]] = sim.res]) :
            sim \in {simulate(m, st.cs, Models[m][nexts(m, states(m)[i])].args[2])}})
  ELSE Only({IF st.ns[states(m)[i]] # NoBV THEN [st EXCEPT !.abort = TRUE, !.rng = rnd.rng]
              ELSE NextStatesFrom(m, randomize, i + 1,
                     [st EXCEPT !.ns[states(m)[i]] = rnd.bv, !.rng = rnd.rng]) :
            rnd \in {IF randomize
            THEN btorsim_bv_new_random(st.rng, Models[m][states(m)[i]].width)
            ELSE [rng |-> st.rng, bv |-> btorsim_bv_new(Models[m][states(m)[i]].width)]}})

\* What the read 'current_state[arg]' followed by btorsim_bv_is_zero gives.
\* A negative arg indexes the table before its first element: undefined
\* behaviour, whose outcome ub is any of UBOutcomes.  A null pointer makes
\* btorsim_bv_is_zero crash.
UBOutcomes == {"crash", "zero", "nonzero"}

ReadIsZero(cs, arg, ub) ==
  IF arg < 0 THEN ub
  ELSE IF cs[arg] = NoBV THEN "crash"
  ELSE IF btorsim_bv_is_zero(cs[arg]) THEN "zero" ELSE "nonzero"

\* The outcomes of the out-of-bounds reads of one simulate_step: one per
\* line of ids whose argument is negative.
UBChoices(m, ids) ==
  {f \in [1..Len(ids) -> UBOutcomes \cup {"defined"}] :
     \A i \in 1..Len(ids) : (Models[m][ids[i]].args[1] < 0) <=> (f[i] # "defined")}

\* The constraint loop: every constraint is read; constraints_violated
\* becomes cycle when one of them reads as zero.
CheckConstraints(m, cs, cycle, ub) ==
  LET cons == constraints(m)
      rd == [i \in 1..Len(cons) |-> ReadIsZero(cs, Models[m][cons[i]].args[1], ub[i])]
  IN [crash |-> \E i \in 1..Len(cons) : rd[i] = "crash",
      violated |-> IF \E i \in 1..Len(cons) : rd[i] = "zero" THEN cycle ELSE -1]

\* A bad loop that reads the bads already reached as well.
RecheckBads(m, cs, cycle, reached, ub) ==
  LET bs == bads(m)
      rd == [i \in 1..Len(bs) |->
               ReadIsZero(cs, Models[m][bs[i]].args[1], ub[i])]
  IN [crash |-> \E i \in 1..Len(bs) : rd[i] = "crash",
      reached |-> [i \in 1..Len(bs) |-> IF rd[i] = "nonzero" THEN cycle ELSE reached[i]],
      poked |-> Cardinality({i \in 1..Len(bs) : rd[i] = "nonzero"})]

\* The bad loop: every bad not yet reached is read and, when it does not
\* read as zero, marked as reached at cycle; poked counts the entries
\* written, each of which takes one off num_unreached_bads.
CheckBads(m, cs, cycle, reached, ub) ==
  LET bs == bads(m)
      rd == [i \in 1..Len(bs) |->
               IF reached[i] >= 0 THEN "skip"
               ELSE ReadIsZero(cs, Models[m][bs[i]].args[1], ub[i])]
  IN [crash |-> \E i \in 1..Len(bs) : rd[i] = "crash",
      reached |-> [i \in 1..Len(bs) |-> IF rd[i] = "nonzero" THEN cycle ELSE reached[i]],
      poked |-> Cardinality({i \in 1..Len(bs) : rd[i] = "nonzero"})]

\* The number of entries of reached that are still -1.
Unreached(reached) == Cardinality({i \in 1..Len(reached) : reached[i] < 0})

\* What cycle's values say about the bads and constraints: whether the
\* argument of each (complemented when negated) is non-zero.
Observed(m, cs) ==
  [bad |-> [i \in 1..Len(bads(m)) |->
              ~btorsim_bv_is_zero(Eval(m, cs, Models[m][bads(m)[i]].args[1]))],
   con |-> [i \in 1..Len(constraints(m)) |->
              ~btorsim_bv_is_zero(Eval(m, cs, Models[m][constraints(m)[i]].args[1]))]]

\* The next value of every state with a next line, computed afresh.
Expected(m, cs) ==
  [id \in Ids(m) |->
     IF id # 0 /\ Models[m][id].tag = "state" /\ nexts(m, id) # 0
     THEN Eval(m, cs, Models[m][nexts(m, id)].args[2])
     ELSE NoBV]

\* What the two closing loops of simulate_step make of the values cs at
\* cycle, for the outcomes ubc and ubb of the out-of-bounds reads.
JudgeStep(m, cs, cycle, violated, reached, ubc, ubb) ==
  LET cons == IF violated < 0 THEN CheckConstraints(m, cs, cycle, ubc)
              ELSE [crash |-> FALSE, violated |-> violated]
      bd == IF cons.violated < 0 /\ ~cons.crash
            THEN CheckBads(m, cs, cycle, reached, ubb)
            ELSE [crash |-> FALSE, reached |-> reached, poked |-> 0]
  IN [crash |-> cons.crash \/ bd.crash, violated |-> cons.violated,
      reached |-> bd.reached, poked |-> bd.poked]

\* simulate_step.  The second run on the same model, flags and seed has
\* drawn the same numbers and holds the same values for as long as it has
\* not parted from this one; j is what this run's out-of-bounds reads make
\* of the step and j2 what the second run's make of it.
simulate_step ==
  /\ pc = "simulate_step" /\ status = "running"
  /\ \E all \in {SimulateAllFrom(model, 0,
                                    [cs |-> current_state, die |-> FALSE])} :
     \E nx \in {NextStatesFrom(model, ~checking_mode, 1,
                   [cs |-> all.cs, ns |-> next_state, rng |-> rng,
                    die |-> all.die, abort |-> FALSE])} :
     \E obs \in {Observed(model, current_state)} :
     \E nxt \in {Expected(model, current_state)} :
     \E judged \in {{JudgeStep(model, nx.cs, k, constraints_violated,
                                reached_bads, ubc, ubb) :
                        ubc \in UBChoices(model, constraints(model)),
                        ubb \in UBChoices(model, bads(model))}} :
     \E j \in judged, j2 \in judged :
          /\ (checking_mode \/ twin.diverged) => j2 = j
          /\ current_state' = nx.cs
          /\ next_state' = nx.ns
          /\ rng' = nx.rng
          /\ seen' = Append(seen, obs)
          /\ expect' = nxt
          /\ nsteps' = nsteps + 1
          /\ twin' = [diverged |-> twin.diverged \/ j2 # j]
          /\ IF nx.die
             THEN /\ Exit1("can not randomly simulate operator")
                  /\ UNCHANGED verdicts
             ELSE IF nx.abort
             THEN /\ status' = "abort" /\ pc' = "done"
                  /\ UNCHANGED <<err, verdicts>>
             ELSE IF j.crash
             THEN /\ status' = "crash" /\ pc' = "done"
                  /\ UNCHANGED <<err, verdicts>>
             ELSE /\ constraints_violated' = j.violated
                  /\ reached_bads' = j.reached
                  /\ num_unreached_bads' = num_unreached_bads - j.poked
                  /\ pc' = IF checking_mode THEN "parse_frame"
                           ELSE "random_simulation"
                  /\ UNCHANGED <<status, err>>
  /\ UNCHANGED <<calc, options, k, out, reader, ntrans, prior>>

\* -------------------------------------------------------------- transition

\* A delete_current_state that leaves the value in place.
KeepCurrentState(cs, id) == cs

\* delete_current_state for every id.
delete_current_state(cs, id) == [cs EXCEPT ![id] = NoBV]

RECURSIVE DeleteAllFrom(_, _, _)
DeleteAllFrom(m, i, cs) ==
  IF i >= num_format_lines(m) THEN cs
  ELSE DeleteAllFrom(m, i + 1, delete_current_state(cs, i))

\* The loop of transition from the i-th state on; 'assert (update)' fails
\* when a state has no next value.
RECURSIVE MoveStatesFrom(_, _, _, _)
MoveStatesFrom(m, pstates, i, st) ==
  IF i > Len(states(m)) \/ st.abort THEN st
  ELSE
    LET id == states(m)[i]
        update == st.ns[id]
    IN IF update = NoBV THEN [st EXCEPT !.abort = TRUE]
       ELSE MoveStatesFrom(m, pstates, i + 1,
              [cs |-> update_current_state(st.cs, id, update),
               ns |-> [st.ns EXCEPT ![id] = NoBV],
               out |-> IF pstates
                       THEN Append(st.out,
                              Line("a", i - 1, btorsim_bv_print_without_new_line(update)))
                       ELSE st.out,
               abort |-> FALSE])

\* A transition that keeps the values of the cycle before and drops the
\* next values.
StaleTransition ==
  [cs |-> current_state, ns |-> EmptyTable(model), out |-> out, abort |-> FALSE]

\* A transition that moves the next values into current_state and leaves
\* them in next_state.
TransitionKeepingNext ==
  [cs |-> [id \in Ids(model) |->
             IF id # 0 /\ Models[model][id].tag = "state" THEN next_state[id]
             ELSE NoBV],
   ns |-> next_state, out |-> out, abort |-> FALSE]

\* A transition that leaves every state without a next function the value
\* it had in the cycle before.
CarryOverTransition ==
  [cs |-> [id \in Ids(model) |->
             IF id = 0 \/ Models[model][id].tag # "state" THEN NoBV
             ELSE IF nexts(model, id) # 0 THEN next_state[id]
             ELSE current_state[id]],
   ns |-> EmptyTable(model), out |-> out, abort |-> FALSE]

AfterTransition ==
  MoveStatesFrom(model, print_trace /\ print_states, 1,
    [cs |-> DeleteAllFrom(model, 0, current_state), ns |-> next_state,
     out |-> IF print_trace /\ print_states
             THEN Append(out, Line("#", k, <<>>)) ELSE out,
     abort |-> FALSE])

transition ==
  /\ pc = "transition" /\ status = "running"
  /\ \E st \in {AfterTransition} :
        /\ current_state' = st.cs
        /\ next_state' = st.ns
        /\ out' = st.out
        /\ IF st.abort
           THEN status' = "abort" /\ pc' = "done"
           ELSE /\ pc' = IF checking_mode THEN "parse_state_part"
                         ELSE "initialize_inputs"
                /\ UNCHANGED status
  /\ ntrans' = ntrans + 1
  /\ UNCHANGED <<calc, options, rng, verdicts, k, err, reader, seen, expect, nsteps,
                 twin, prior>>

\* ------------------------------------------------------- random_simulation

\* A loop of random_simulation that does not look at its bound.
LoopWithoutBound(bound, cycle, violated, unreached) ==
  violated < 0 /\ unreached # 0

\* A loop of random_simulation that does not look at the number of
\* unreached bads.
LoopIgnoringBads(bound, cycle, violated, unreached) ==
  cycle + 1 <= bound /\ violated < 0

\* TRUE when the loop of random_simulation goes round once more after
\* cycle: i = cycle + 1 is within the bound, no constraint was violated and
\* some bad is unreached.
LoopContinues(bound, cycle, violated, unreached) ==
  cycle + 1 <= bound /\ violated < 0 /\ unreached # 0

\* The head of the loop of random_simulation and, when the loop ends, the
\* closing '.' and the return from main.
random_simulation ==
  /\ pc = "random_simulation" /\ status = "running"
  /\ IF LoopContinues(r, k, constraints_violated, num_unreached_bads)
     THEN /\ k' = k + 1
          /\ pc' = "transition"
          /\ UNCHANGED <<out, status>>
     ELSE /\ out' = IF print_trace THEN Append(out, Line(".", 0, <<>>)) ELSE out
          /\ status' = "exit0"
          /\ pc' = "done"
          /\ UNCHANGED k
  /\ UNCHANGED <<calc, options, rng, tables, verdicts, err, reader, ghosts, prior>>

\* ------------------------------------------------------ the witness reader

Max(a, b) == IF a > b THEN a ELSE b

\* The binary constants a witness line can carry.
BitStrings == UNION {[1..n -> {0, 1}] : n \in 1..MaxWidth}

\* The property lists a 'sat' header can carry: up to MaxClaims bad indices,
\* of which Len(bads(m)) is one too large.
ClaimLists(m) == UNION {[1..n -> 0..Len(bads(m))] : n \in 0..MaxClaims}

\* The positions an assignment line can name: one more than the model has
\* states or inputs.
Positions(m) == 0 .. Max(Len(states(m)), Len(inputs(m)))

\* The lines a witness file for model m is made of.
Alphabet(m) ==
  {Line("sat", 0, <<>>), Line("unsat", 0, <<>>), Line(".", 0, <<>>),
   Line("j", 0, <<>>), EOF}
    \cup {Line("b", 0, c) : c \in ClaimLists(m)}
    \cup {Line(t, j, <<>>) : t \in {"#", "@"}, j \in 0..MaxFrame}
    \cup {Line("a", i, b) : i \in Positions(m), b \in BitStrings}

\* next_char at the start of a line: the line handed back, or the next line
\* of the file.
NextLines ==
  IF look # NoLine THEN {look}
  ELSE IF free THEN (IF nread >= MaxLines THEN {EOF} ELSE Alphabet(model))
  ELSE IF witness = <<>> THEN {EOF}
  ELSE {Head(witness)}

\* The reader after line l is read and, when back holds, handed back by
\* prev_char; an assignment line, and the line read for a state part
\* header, is recorded in last with the part of the
\* frame it was read in and the value was that its state or input held.
ReadLine(l, back, part, was) ==
  /\ look' = IF back THEN l ELSE NoLine
  /\ last' = IF l.t = "a" \/ part = "state header"
              THEN [line |-> l, part |-> part, k |-> k, was |-> was,
                    done |-> IF last.part = part /\ last.k = k
                             THEN last.done \cup {last.line.n} ELSE {}]
              ELSE NoLast
  /\ IF look # NoLine THEN UNCHANGED <<witness, nread>>
     ELSE IF free THEN nread' = nread + 1 /\ UNCHANGED witness
     ELSE /\ witness' = IF witness = <<>> THEN <<>> ELSE Tail(witness)
          /\ UNCHANGED nread
  /\ UNCHANGED free

Go(p) == pc' = p /\ UNCHANGED <<status, err>>

\* What parse_assignment makes of line l: "." for the closing line, "back"
\* for a header it hands back, "assignment" for 'n bits', a parse error
\* otherwise.
parse_assignment(l) ==
  CASE l.t = "eof" -> "unexpected end-of-file (without '.')"
    [] l.t = "." -> "."
    [] l.t \in {"@", "#"} -> "back"
    [] l.t = "a" -> "assignment"
    [] OTHER -> "expected digit"

\* --------------------------------------------------- parse_and_check_witness

\* One call of parse_and_check_witness up to the call of parse_sat_witness
\* or parse_unknown_witness.  At the end of the file the loop of
\* parse_and_check_all_witnesses ends and main returns 0; a line that opens
\* no witness is skipped.
parse_and_check_witness ==
  /\ pc = "parse_and_check_witness" /\ status = "running"
  /\ \E l \in NextLines :
       /\ ReadLine(l, l.t = "#", "top", NoBV)
       /\ IF l.t = "eof"
          THEN /\ status' = "exit0" /\ pc' = "done"
               /\ UNCHANGED <<err, sat, count_witnesses, found_end_of_witness,
                              found_initial_frame>>
          ELSE /\ found_end_of_witness' = FALSE
               /\ found_initial_frame' = FALSE
               /\ IF l.t \in {"#", "sat"}
                  THEN /\ count_witnesses' = count_witnesses + 1
                       /\ sat' = (l.t = "sat")
                       /\ IF count_witnesses + 1 > 1
                          THEN Exit1("more than one actual witness not supported yet")
                          ELSE Go(IF l.t = "sat" THEN "parse_sat_witness"
                                  ELSE "parse_state_part")
                  ELSE IF l.t = "unsat"
                  THEN /\ count_witnesses' = count_witnesses + 1
                       /\ Exit1("'unsat' witnesses not supported yet")
                       /\ UNCHANGED sat
                  ELSE /\ Go("parse_and_check_witness")
                       /\ UNCHANGED <<sat, count_witnesses>>
  /\ UNCHANGED <<calc, options, rng, tables, verdicts, k, out, claimed_bad_witnesses,
                 ghosts, prior>>

\* The header loop of parse_sat_witness: the list of the properties the
\* witness claims.
parse_sat_witness ==
  /\ pc = "parse_sat_witness" /\ status = "running"
  /\ \E l \in NextLines :
       /\ ReadLine(l, FALSE, "header", NoBV)
       /\ IF l.t = "j"
          THEN /\ Exit1("can not handle justice properties yet")
               /\ UNCHANGED claimed_bad_witnesses
          ELSE IF l.t # "b"
          THEN /\ Exit1("expected 'b' or 'j'")
               /\ UNCHANGED claimed_bad_witnesses
          ELSE IF \E i \in 1..Len(l.bits) : l.bits[i] >= Len(bads(model))
          THEN /\ Exit1("invalid bad state property number")
               /\ UNCHANGED claimed_bad_witnesses
          ELSE /\ claimed_bad_witnesses' = l.bits
               /\ Go("parse_state_part")
  /\ UNCHANGED <<calc, options, rng, tables, verdicts, k, out, sat, count_witnesses,
                 found_end_of_witness, found_initial_frame, ghosts, prior>>

\* ---------------------------------------------------------- parse_state_part

\* TRUE when line l is a state part header, whatever its number.
AnyStateHeader(l, cycle) == l.t = "#"

\* TRUE when line l is the header '#cycle'.
StateHeader(l, cycle) == l.t = "#" /\ l.n = cycle

\* The header of the state part of frame k.  Frame 0 must open with '#0';
\* a later frame may have no state part, and the line read is handed back.
parse_state_part ==
  /\ pc = "parse_state_part" /\ status = "running"
  /\ \E l \in NextLines :
       /\ ReadLine(l, k > 0 /\ l.t # "#", "state header", NoBV)
       /\ IF k > 0 /\ l.t # "#" THEN Go("parse_input_part")
          ELSE IF StateHeader(l, k) THEN Go("parse_state_assignment")
          ELSE Exit1("missing state part header")
  /\ UNCHANGED <<calc, options, rng, tables, verdicts, k, out, sat, count_witnesses,
                 claimed_bad_witnesses, found_end_of_witness,
                 found_initial_frame, ghosts, prior>>

\* What one round of the loop of parse_state_part does with the assignment
\* of constant bits to the state at position pos: the table afterwards and
\* the parse error, "" when the assignment is accepted.  Comparing with a
\* state that has no value dereferences a null pointer.
AssignState(m, cs, cycle, pos, bits) ==
  LET id == states(m)[pos + 1]
      val == btorsim_bv_char_to_bv(bits)
      init == inits(m, id)
      sim == simulate(m, cs, Models[m][init].args[2])
      checked == init # 0 /\ nexts(m, id) # 0
      cs1 == IF checked THEN sim.cs ELSE cs
  IN IF pos >= Len(states(m))
     THEN [cs |-> cs, err |-> "less than states defined"]
     ELSE IF Len(bits) # Models[m][id].width
     THEN [cs |-> cs, err |-> "expected constant of width"]
     ELSE IF cs[id] # NoBV /\ nexts(m, id) # 0
     THEN [cs |-> cs, err |-> "state assigned twice in frame"]
     ELSE IF checked /\ sim.die
     THEN [cs |-> cs1, err |-> "can not randomly simulate operator"]
     ELSE IF checked /\ btorsim_bv_compare(val, sim.res) # 0
     THEN [cs |-> cs1, err |-> "incompatible initialized state"]
     ELSE IF cycle > 0 /\ nexts(m, id) # 0 /\ cs1[id] = NoBV
     THEN [cs |-> cs1, err |-> "crash"]
     ELSE IF cycle > 0 /\ nexts(m, id) # 0 /\ btorsim_bv_compare(val, cs1[id]) # 0
     THEN [cs |-> cs1, err |-> "incompatible assignment for state"]
     ELSE [cs |-> update_current_state(cs1, id, val), err |-> ""]

\* The value the state or input at position pos of the list ids holds, NoBV
\* when the list is shorter.
ValueAt(cs, ids, pos) == IF pos < Len(ids) THEN cs[ids[pos + 1]] ELSE NoBV

\* One round of the loop of parse_state_part, and what follows the loop
\* when parse_assignment returns -1.
parse_state_assignment ==
  /\ pc = "parse_state_assignment" /\ status = "running"
  /\ \E l \in NextLines :
       LET pa == parse_assignment(l)
           as == AssignState(model, current_state, k, l.n, l.bits)
       IN /\ ReadLine(l, pa = "back", "state",
                      IF pa = "assignment"
                      THEN ValueAt(current_state, states(model), l.n) ELSE NoBV)
          /\ IF pa \in {".", "back"}
             THEN /\ found_end_of_witness' = (found_end_of_witness \/ pa = ".")
                  /\ found_initial_frame' = (found_initial_frame \/ k = 0)
                  /\ Go("parse_input_part")
                  /\ UNCHANGED current_state
             ELSE IF pa # "assignment"
             THEN /\ Exit1(pa)
                  /\ UNCHANGED <<current_state, found_end_of_witness,
                                 found_initial_frame>>
             ELSE /\ current_state' = as.cs
                  /\ IF as.err = "" THEN Go("parse_state_assignment")
                     ELSE IF as.err = "crash"
                     THEN status' = "crash" /\ pc' = "done" /\ UNCHANGED err
                     ELSE Exit1(as.err)
                  /\ UNCHANGED <<found_end_of_witness, found_initial_frame>>
  /\ UNCHANGED <<calc, options, rng, next_state, verdicts, k, out, sat,
                 count_witnesses, claimed_bad_witnesses, ghosts, prior>>

\* ---------------------------------------------------------- parse_input_part

\* The header of the input part of frame k.  When the line is not '@k',
\* parse_assignment is called on what follows the characters already read
\* and its value is dropped: after '@j' or an empty line that is the next
\* line of the file, after anything else the rest of the same line, which
\* is no assignment.
parse_input_part ==
  /\ pc = "parse_input_part" /\ status = "running"
  /\ \E l \in NextLines :
       /\ ReadLine(l, FALSE, "input header", NoBV)
       /\ IF l.t = "@" /\ l.n = k THEN Go("parse_input_assignment")
          ELSE IF l.t = "@" \/ (l.t = "b" /\ l.bits = <<>>)
          THEN Go("parse_input_skip")
          ELSE IF l.t = "eof" THEN Exit1("unexpected end-of-file (without '.')")
          ELSE IF l.t \in {"#", "j"} \/ (l.t = "b" /\ Len(l.bits) = 1)
          THEN Exit1("space missing after")
          ELSE IF l.t = "b" THEN Exit1("empty constant")
          ELSE Exit1("expected digit")
  /\ UNCHANGED <<calc, options, rng, tables, verdicts, k, out, sat, count_witnesses,
                 claimed_bad_witnesses, found_end_of_witness,
                 found_initial_frame, ghosts, prior>>

\* The call of parse_assignment in parse_input_part whose value is dropped.
parse_input_skip ==
  /\ pc = "parse_input_skip" /\ status = "running"
  /\ \E l \in NextLines :
       LET pa == parse_assignment(l)
       IN /\ ReadLine(l, pa = "back", "skipped", NoBV)
          /\ found_end_of_witness' = (found_end_of_witness \/ pa = ".")
          /\ IF pa \in {".", "back", "assignment"}
             THEN Go("parse_input_assignment")
             ELSE Exit1(pa)
  /\ UNCHANGED <<calc, options, rng, tables, verdicts, k, out, sat, count_witnesses,
                 claimed_bad_witnesses, found_initial_frame, ghosts, prior>>

\* An AssignInput without the comparison of the constant's length with the
\* input's width.
AssignInputAnyWidth(m, cs, pos, bits) ==
  IF pos >= Len(inputs(m))
  THEN [cs |-> cs, err |-> "less than defined"]
  ELSE IF cs[inputs(m)[pos + 1]] # NoBV
  THEN [cs |-> cs, err |-> "input assigned twice in frame"]
  ELSE [cs |-> update_current_state(cs, inputs(m)[pos + 1],
                                    btorsim_bv_char_to_bv(bits)),
        err |-> ""]

\* An AssignInput that lets an input be assigned again.
AssignInputAgain(m, cs, pos, bits) ==
  IF pos >= Len(inputs(m))
  THEN [cs |-> cs, err |-> "less than defined"]
  ELSE IF Len(bits) # Models[m][inputs(m)[pos + 1]].width
  THEN [cs |-> cs, err |-> "expected constant of width"]
  ELSE [cs |-> update_current_state(cs, inputs(m)[pos + 1],
                                    btorsim_bv_char_to_bv(bits)),
        err |-> ""]

\* What one round of the loop of parse_input_part does with the assignment
\* of constant bits to the input at position pos.
AssignInput(m, cs, pos, bits) ==
  LET id == inputs(m)[pos + 1]
  IN IF pos >= Len(inputs(m))
     THEN [cs |-> cs, err |-> "less than defined"]
     ELSE IF Len(bits) # Models[m][id].width
     THEN [cs |-> cs, err |-> "expected constant of width"]
     ELSE IF cs[id] # NoBV
     THEN [cs |-> cs, err |-> "input assigned twice in frame"]
     ELSE [cs |-> update_current_state(cs, id, btorsim_bv_char_to_bv(bits)),
           err |-> ""]

\* One round of the loop of parse_input_part; when parse_assignment returns
\* -1 parse_frame goes on to initialize_states (frame 0) or
\* initialize_inputs.
parse_input_assignment ==
  /\ pc = "parse_input_assignment" /\ status = "running"
  /\ \E l \in NextLines :
       LET pa == parse_assignment(l)
           as == AssignInput(model, current_state, l.n, l.bits)
       IN /\ ReadLine(l, pa = "back", "input",
                      IF pa = "assignment"
                      THEN ValueAt(current_state, inputs(model), l.n) ELSE NoBV)
          /\ IF pa \in {".", "back"}
             THEN /\ found_end_of_witness' = (found_end_of_witness \/ pa = ".")
                  /\ Go(IF k = 0 THEN "initialize_states" ELSE "initialize_inputs")
                  /\ UNCHANGED current_state
             ELSE IF pa # "assignment"
             THEN /\ Exit1(pa)
                  /\ UNCHANGED <<current_state, found_end_of_witness>>
             ELSE /\ current_state' = as.cs
                  /\ IF as.err = "" THEN Go("parse_input_assignment")
                     ELSE Exit1(as.err)
                  /\ UNCHANGED found_end_of_witness
  /\ UNCHANGED <<calc, options, rng, next_state, verdicts, k, out, sat,
                 count_witnesses, claimed_bad_witnesses, found_initial_frame,
                 ghosts, prior>>

\* ---------------------------------------------------------------- parse_frame

\* A check of the claims that misses every unreached bad.
NoUnreachedClaim(claimed, reached) == FALSE

\* TRUE when a bad claimed by the header has not been reached.
UnreachedClaim(claimed, reached) ==
  \E i \in 1..Len(claimed) : reached[claimed[i] + 1] < 0

\* The return of parse_frame into the loop of parse_sat_witness or
\* parse_unknown_witness: another frame, or what follows the loop, up to the
\* return into parse_and_check_all_witnesses.
parse_frame ==
  /\ pc = "parse_frame" /\ status = "running"
  /\ IF ~found_end_of_witness
     THEN /\ k' = k + 1
          /\ Go("transition")
          /\ UNCHANGED out
     ELSE IF ~found_initial_frame
     THEN /\ Exit1("initial frame missing")
          /\ UNCHANGED <<k, out>>
     ELSE /\ out' = IF print_trace THEN Append(out, Line(".", 0, <<>>)) ELSE out
          /\ IF sat /\ UnreachedClaim(claimed_bad_witnesses, reached_bads)
             THEN Exit1("claimed bad state property not reached")
             ELSE Go("parse_and_check_witness")
          /\ UNCHANGED k
  /\ UNCHANGED <<calc, options, rng, tables, verdicts, reader, ghosts, prior>>

\* ------------------------------------------------------------- the round trip

\* The trace a random-mode run has written is given to the checker as the
\* witness for the same model: a second run of main, with a witness path
\* and without -r, -s and -b.
check_emitted_trace ==
  /\ pc = "done" /\ status = "exit0" /\ ~checking_mode
  /\ out # <<>> /\ Head(out).t = "sat"
  /\ prior' = [reached_bads |-> reached_bads, out |-> out,
               fake_bad |-> fake_bad, valid |-> TRUE]
  /\ checking_mode' = TRUE
  /\ fake_bad' = -1 /\ r' = -1 /\ seed' = -1
  /\ rng' = [z |-> U32(0, 0), w |-> U32(0, 0)]
  /\ current_state' = EmptyTable(model)
  /\ next_state' = EmptyTable(model)
  /\ reached_bads' = <<>>
  /\ constraints_violated' = -1
  /\ num_unreached_bads' = 0
  /\ k' = 0
  /\ pc' = "main"
  /\ out' = <<>>
  /\ status' = "running"
  /\ err' = ""
  /\ witness' = out
  /\ free' = FALSE
  /\ nread' = 0
  /\ look' = NoLine
  /\ sat' = FALSE
  /\ count_witnesses' = 0
  /\ claimed_bad_witnesses' = <<>>
  /\ found_end_of_witness' = FALSE
  /\ found_initial_frame' = FALSE
  /\ last' = NoLast
  /\ seen' = <<>>
  /\ expect' = EmptyTable(model)
  /\ ntrans' = 0
  /\ nsteps' = 0
  /\ twin' = NoTwin
  /\ UNCHANGED <<calc, model, print_trace, print_states>>

Next ==
  \/ main
  \/ initialize_states
  \/ initialize_inputs
  \/ simulate_step
  \/ transition
  \/ random_simulation
  \/ parse_and_check_witness
  \/ parse_sat_witness
  \/ parse_state_part
  \/ parse_state_assignment
  \/ parse_input_part
  \/ parse_input_skip
  \/ parse_input_assignment
  \/ parse_frame
  \/ check_emitted_trace

Spec == Init /\ [][Next]_vars

\* Random mode alone, with the fairness of a process that keeps running.
InitRandom == Init /\ ~checking_mode

NextRandom ==
  \/ main
  \/ initialize_states
  \/ initialize_inputs
  \/ simulate_step
  \/ transition
  \/ random_simulation

FairRandomSpec == InitRandom /\ [][NextRandom]_vars /\ WF_vars(NextRandom)

\* ------------------------------------------------ the library on its own
\* The evaluator's switch and the library under it, applied once to
\* operands that a model or a witness can give: the values of constants.

\* The binary constant of bw characters with '1' at the positions in ones,
\* position 0 being the last character.
BitString(bw, ones) == [j \in 1..bw |-> IF bw - j \in ones THEN "1" ELSE "0"]

\* Every bit vector of at most MaxBits bits.
Narrow ==
  UNION {{bv_char_to_bv(BitString(bw, ones)) : ones \in SUBSET (0..(bw - 1))} :
         bw \in 1..MaxBits}

\* One bit more than a word.
WideWidth == BTORSIM_BV_TYPE_BW + 1

\* The bits set in the operands of WideWidth bits: the lowest, and the two
\* on either side of the word boundary.
WideOnes == {0, BTORSIM_BV_TYPE_BW - 1, BTORSIM_BV_TYPE_BW}

Wide == {bv_char_to_bv(BitString(WideWidth, ones)) : ones \in SUBSET WideOnes}

\* The operands of one whole word, which has no spare bits: the lowest and
\* the highest bit set or not.
Words ==
  {bv_char_to_bv(BitString(BTORSIM_BV_TYPE_BW, ones)) :
     ones \in SUBSET {0, BTORSIM_BV_TYPE_BW - 1}}

Operands == Narrow \cup Words \cup Wide

\* The operands of an operator whose arguments have one sort.
Pairs == {p \in Operands \X Operands : p[1].width = p[2].width}

BinaryTags ==
  {"add", "and", "eq", "implies", "mul", "nand", "neq", "nor", "or", "sdiv",
   "sll", "sra", "srem", "srl", "sub", "udiv", "ugt", "ugte", "ult", "ulte",
   "urem", "sgt", "sgte", "slt", "slte", "xnor", "xor"}

UnaryTags == {"dec", "inc", "neg", "not", "redand", "redor"}

\* The line of a model as simulate reads it: l->tag, l->sort.bitvec.width,
\* l->args (args[i] of the source is args[i + 1]) and l->constant.
Btor2Line(tag, width, args, constant) ==
  [tag |-> tag, width |-> width, args |-> args, constant |-> constant]

\* The switch of simulate for the line l with the values args of its
\* arguments.
simulate_switch(l, args) ==
  CASE l.tag = "add" -> bv_add(args[1], args[2])
    [] l.tag = "and" -> bv_and(args[1], args[2])
    [] l.tag = "concat" -> btorsim_bv_concat(args[1], args[2])
    [] l.tag = "const" -> bv_char_to_bv(l.constant)
    [] l.tag = "constd" -> btorsim_bv_constd(l.constant, l.width)
    [] l.tag = "dec" -> btorsim_bv_dec(args[1])
    [] l.tag = "eq" -> bv_eq(args[1], args[2])
    [] l.tag = "implies" -> btorsim_bv_implies(args[1], args[2])
    [] l.tag = "inc" -> bv_inc(args[1])
    [] l.tag = "ite" -> btorsim_bv_ite(args[1], args[2], args[3])
    [] l.tag = "mul" -> btorsim_bv_mul(args[1], args[2])
    [] l.tag = "nand" -> btorsim_bv_nand(args[1], args[2])
    [] l.tag = "neg" -> btorsim_bv_neg(args[1])
    [] l.tag = "neq" -> bv_neq(args[1], args[2])
    [] l.tag = "nor" -> btorsim_bv_nor(args[1], args[2])
    [] l.tag = "not" -> bv_not(args[1])
    [] l.tag = "one" -> bv_one(l.width)
    [] l.tag = "ones" -> bv_ones(l.width)
    [] l.tag = "or" -> bv_or(args[1], args[2])
    [] l.tag = "redand" -> btorsim_bv_redand(args[1])
    [] l.tag = "redor" -> btorsim_bv_redor(args[1])
    [] l.tag = "slice" -> btorsim_bv_slice(args[1], l.args[2], l.args[3])
    [] l.tag = "sub" -> btorsim_bv_sub(args[1], args[2])
    [] l.tag = "uext" ->
         IF l.width - args[1].width # 0
         THEN btorsim_bv_uext(args[1], l.width - args[1].width)
         ELSE btorsim_bv_copy(args[1])
    [] l.tag = "udiv" -> btorsim_bv_udiv(args[1], args[2])
    [] l.tag = "sdiv" -> btorsim_bv_sdiv(args[1], args[2])
    [] l.tag = "sext" ->
         IF l.width - args[1].width # 0
         THEN btorsim_bv_sext(args[1], l.width - args[1].width)
         ELSE btorsim_bv_copy(args[1])
    [] l.tag = "sll" -> btorsim_bv_sll(args[1], args[2])
    [] l.tag = "srl" -> btorsim_bv_srl(args[1], args[2])
    [] l.tag = "sra" -> btorsim_bv_sra(args[1], args[2])
    [] l.tag = "srem" -> btorsim_bv_srem(args[1], args[2])
    [] l.tag = "ugt" -> btorsim_bv_ult(args[2], args[1])
    [] l.tag = "ugte" -> btorsim_bv_ulte(args[2], args[1])
    [] l.tag = "ult" -> btorsim_bv_ult(args[1], args[2])
    [] l.tag = "ulte" -> btorsim_bv_ulte(args[1], args[2])
    [] l.tag = "urem" -> btorsim_bv_urem(args[1], args[2])
    [] l.tag = "sgt" -> btorsim_bv_slt(args[2], args[1])
    [] l.tag = "sgte" -> btorsim_bv_slte(args[2], args[1])
    [] l.tag = "slt" -> btorsim_bv_slt(args[1], args[2])
    [] l.tag = "slte" -> btorsim_bv_slte(args[1], args[2])
    [] l.tag = "xnor" -> bv_xnor(args[1], args[2])
    [] l.tag = "xor" -> bv_xor(args[1], args[2])
    [] l.tag = "zero" -> bv_new(l.width)

\* The call op(args) and its result, the rest of the program left alone.
Call(op, args, res) ==
  /\ calc' = [op |-> op, args |-> args, res |-> res]
  /\ UNCHANGED <<options, rng, tables, verdicts, k, pc, out, status, err,
                 reader, ghosts, prior>>

\* simulate on a line with two arguments of one sort.
binary_operator ==
  \E tag \in BinaryTags : \E p \in Pairs :
    /\ calc = NoCalc
    /\ Call(tag, p, simulate_switch(Btor2Line(tag, 0, <<>>, <<>>), p))

\* simulate on a line with one argument.
unary_operator ==
  \E tag \in UnaryTags : \E a \in Operands :
    /\ calc = NoCalc
    /\ Call(tag, <<a>>, simulate_switch(Btor2Line(tag, 0, <<>>, <<>>), <<a>>))

\* simulate on a concat line: the arguments have any two sorts.
concat_operator ==
  \E a \in Operands : \E b \in Operands :
    /\ calc = NoCalc
    /\ Call("concat", <<a, b>>,
            simulate_switch(Btor2Line("concat", 0, <<>>, <<>>), <<a, b>>))

\* The bounds of the slices taken of bv: every position of a narrow
\* operand, the positions of WideOnes of a wide one.
SliceBounds(bv) ==
  IF bv.width <= MaxBits THEN 0..(bv.width - 1)
  ELSE {n \in WideOnes : n < bv.width}

\* simulate on a slice line: l->args[1] is the upper and l->args[2] the
\* lower bound.
slice_operator ==
  \E a \in Operands : \E upper \in SliceBounds(a) :
    \E lower \in {n \in SliceBounds(a) : n <= upper} :
      /\ calc = NoCalc
      /\ Call("slice", <<a, upper, lower>>,
              simulate_switch(Btor2Line("slice", upper - lower + 1,
                                        <<0, upper, lower>>, <<>>), <<a>>))

\* The bits added by an extension: none, a few, a whole word.
Paddings == 0..MaxBits \cup {BTORSIM_BV_TYPE_BW}

\* simulate on a uext or sext line of a sort padding bits wider than the
\* argument.
extension_operator ==
  \E tag \in {"uext", "sext"} : \E a \in Operands : \E padding \in Paddings :
    /\ calc = NoCalc
    /\ Call(tag, <<a, padding>>,
            simulate_switch(Btor2Line(tag, a.width + padding, <<>>, <<>>),
                            <<a>>))

\* simulate on an ite line: a condition of one bit and two arguments of
\* one sort.
ite_operator ==
  \E c \in {v \in Narrow : v.width = 1} : \E p \in Pairs :
    /\ calc = NoCalc
    /\ Call("ite", <<c, p[1], p[2]>>,
            simulate_switch(Btor2Line("ite", 0, <<>>, <<>>), <<c, p[1], p[2]>>))

\* The widths of the lines without arguments.
Widths == 1..MaxBits \cup {BTORSIM_BV_TYPE_BW, WideWidth}

\* simulate on a one, ones or zero line.
nullary_operator ==
  \E tag \in {"one", "ones", "zero"} : \E bw \in Widths :
    /\ calc = NoCalc
    /\ Call(tag, <<bw>>, simulate_switch(Btor2Line(tag, bw, <<>>, <<>>), <<>>))

\* Every bit vector written in decimal: those of at most MaxDecBits bits and
\* the wide ones.
Decimals ==
  Wide \cup
  UNION {{bv_char_to_bv(BitString(bw, ones)) : ones \in SUBSET (0..(bw - 1))} :
         bw \in 1..MaxDecBits}

\* btorsim_bv_to_char, as the trace and the witness write a value.
to_char ==
  \E a \in Decimals :
    /\ calc = NoCalc
    /\ Call("to_char", <<a>>, btorsim_bv_to_char(a))

to_dec_char ==
  \E a \in Decimals :
    /\ calc = NoCalc
    /\ Call("to_dec_char", <<a>>, btorsim_bv_to_dec_char(a))

\* simulate on a const line.
const_operator ==
  \E a \in Decimals :
    /\ calc = NoCalc
    /\ Call("const", <<btorsim_bv_to_char(a)>>,
            simulate_switch(Btor2Line("const", a.width, <<>>,
                                      btorsim_bv_to_char(a)), <<>>))

\* simulate on a constd line of the sort of a, whose constant is a in
\* decimal, with a minus sign or without, where it fits the sort.
constd_operator ==
  \E a \in Decimals : \E sign \in {<<>>, <<"-">>} :
    /\ calc = NoCalc
    /\ check_constd(sign \o btorsim_bv_to_dec_char(a), a.width)
    /\ Call("constd", <<sign \o btorsim_bv_to_dec_char(a), a.width>>,
            simulate_switch(Btor2Line("constd", a.width, <<>>,
                                      sign \o btorsim_bv_to_dec_char(a)), <<>>))

\* btorsim_bv_new_random on a generator just seeded. A width that is a
\* multiple of BTORSIM_BV_TYPE_BW shifts an int by its whole width.
new_random ==
  \E s \in 0..MaxSeed : \E bw \in Widths \ {BTORSIM_BV_TYPE_BW} :
    /\ calc = NoCalc
    /\ Call("new_random", <<s, bw>>, bv_new_random(btorsim_rng_init(s), bw).res)

\* A width above 64 bits, where udiv_urem_bv divides bit by bit, and the
\* operands of that width: the bits at LongOnes set or not.
LongWidth == 2 * BTORSIM_BV_TYPE_BW + 1
LongOnes == {1, 2 * BTORSIM_BV_TYPE_BW}
Long == {bv_char_to_bv(BitString(LongWidth, ones)) : ones \in SUBSET LongOnes}

\* simulate on a division line of a sort of more than 64 bits.
long_division ==
  \E tag \in {"udiv", "urem", "sdiv", "srem"} : \E a \in Long : \E b \in Long :
    /\ calc = NoCalc
    /\ Call(tag, <<a, b>>,
            simulate_switch(Btor2Line(tag, 0, <<>>, <<>>), <<a, b>>))

\* The seeds of the generators drawn from on their own: those of -s and the
\* largest of one half word.
Seeds == 0..MaxSeed \cup {Half - 1}

\* btorsim_rng_init on a generator.
rng_init ==
  \E s \in Seeds :
    /\ calc = NoCalc
    /\ Call("rng_init", <<s>>, btorsim_rng_init(s))

\* btorsim_rng_rand on the generator as the last call has left it: the
\* arguments are the generator before the call and the number of the draw.
rng_rand ==
  /\ \/ calc.op = "rng_init"
     \/ calc.op = "rng_rand" /\ calc.args[2] < MaxDraws
  /\ \E g \in {IF calc.op = "rng_init" THEN calc.res ELSE calc.res.rng} :
       Call("rng_rand",
            <<g, IF calc.op = "rng_init" THEN 1 ELSE calc.args[2] + 1>>,
            btorsim_rng_rand(g))

BvInit ==
  /\ Init
  /\ model = 1 /\ ~checking_mode /\ ~print_trace
  /\ fake_bad = -1 /\ r = 0 /\ seed = 0

BvNext ==
  \/ nullary_operator
  \/ const_operator
  \/ constd_operator
  \/ to_char
  \/ to_dec_char
  \/ rng_init
  \/ rng_rand
  \/ new_random
  \/ unary_operator
  \/ slice_operator
  \/ extension_operator
  \/ ite_operator
  \/ concat_operator
  \/ long_division
  \/ binary_operator

BvSpec == BvInit /\ [][BvNext]_vars

\* ------------------------------------------------------------------ properties

IsState(m, id) == id # 0 /\ Models[m][id].tag = "state"

StatesWithNext(m) == {id \in Ids(m) : IsState(m, id) /\ nexts(m, id) # 0}

\* The run stands between transition (k) and the end of simulate_step (k).
AfterATransition ==
  /\ status = "running" /\ k >= 1
  /\ pc \in {"parse_state_part", "parse_state_assignment", "parse_input_part",
             "parse_input_skip", "parse_input_assignment", "initialize_inputs",
             "simulate_step"}

\* C1: after the transition into cycle k+1 every state with a next function
\* holds the value of its next expression evaluated afresh over the state
\* and input values of cycle k.
C1_NextValueAdopted ==
  AfterATransition =>
    \A id \in StatesWithNext(model) : current_state[id] = expect[id]

C1_Witness ==
  /\ AfterATransition /\ ntrans >= 2
  /\ \E id \in StatesWithNext(model) :
       current_state[id] = expect[id] /\ ~btorsim_bv_is_zero(current_state[id])

\* The cycle at which bad i (counted from 1) first had a non-zero argument
\* value with every constraint's argument non-zero at that and every
\* earlier cycle; -1 when there is none.
FirstReach(i) ==
  LET ok(j) == /\ seen[j].bad[i]
               /\ \A j2 \in 1..j : \A c \in DOMAIN seen[j2].con : seen[j2].con[c]
  IN IF \E j \in 1..Len(seen) : ok(j)
     THEN (CHOOSE j \in 1..Len(seen) : ok(j) /\ \A j2 \in 1..(j - 1) : ~ok(j2)) - 1
     ELSE -1

\* The first cycle at which some constraint's argument value was zero; -1
\* when there is none.
FirstViolation ==
  LET bad(j) == \E c \in DOMAIN seen[j].con : ~seen[j].con[c]
  IN IF \E j \in 1..Len(seen) : bad(j)
     THEN (CHOOSE j \in 1..Len(seen) : bad(j) /\ \A j2 \in 1..(j - 1) : ~bad(j2)) - 1
     ELSE -1

\* C2: reached_bads[i] is -1 or the smallest cycle at which the argument
\* value of bad i was non-zero while no constraint had been violated at
\* that or an earlier cycle; that cycle is fixed by the cycles already
\* simulated, so an entry that is set never changes.
C2_FirstNonzeroCycle ==
  status \in {"running", "exit0"} =>
    \A i \in 1..Len(reached_bads) :
      reached_bads[i] = -1 \/ reached_bads[i] = FirstReach(i)

\* C3: once a constraint's argument value was zero at some cycle,
\* constraints_violated is the first such cycle, and no bad is marked
\* reached at that cycle or a later one.
C3_ViolationStopsBads ==
  (status \in {"running", "exit0"} /\ FirstViolation >= 0) =>
    /\ constraints_violated = FirstViolation
    /\ \A i \in 1..Len(reached_bads) : reached_bads[i] < FirstViolation

\* C4: at the end of a 'sat' witness the run exits with status 1 exactly
\* when a bad listed in the header has reached_bads = -1; when all are
\* reached and the file ends with the witness the run exits with status 0.
C4_ExitStatusOfSatWitness ==
  [][/\ (pc = "parse_frame" /\ sat /\ found_end_of_witness) =>
          ((status' = "exit1") <=>
             \E i \in 1..Len(claimed_bad_witnesses) :
               reached_bads[claimed_bad_witnesses[i] + 1] = -1)
     /\ (pc = "parse_and_check_witness" /\ sat /\ count_witnesses = 1
           /\ NextLines = {EOF}) => status' = "exit0"]_vars

C4_Witness ==
  /\ checking_mode /\ sat /\ status = "exit1"
  /\ err = "claimed bad state property not reached"
  /\ \E i \in 1..Len(claimed_bad_witnesses) :
       reached_bads[claimed_bad_witnesses[i] + 1] >= 0

\* TRUE when no bad and no constraint of model m negates its argument, so
\* that simulate_step reads current_state within the table.
PlainProperties(m) ==
  \A i \in 1..Len(Models[m]) :
    Models[m][i].tag \in {"bad", "constraint"} => Models[m][i].args[1] > 0

\* C5: when a random-mode run with -b N wrote a trace in which bad N was
\* reached, the checker given that trace exits with status 0 and reaches the
\* same bads.  Stated for the models of PlainProperties, whose runs do not
\* depend on a read outside current_state.
C5_RoundTrip ==
  (/\ PlainProperties(model) /\ prior.valid /\ pc = "done"
   /\ prior.reached_bads[prior.fake_bad + 1] >= 0) =>
    /\ status = "exit0"
    /\ \A i \in 1..Len(prior.reached_bads) :
         (reached_bads[i] >= 0) <=> (prior.reached_bads[i] >= 0)

\* C6: a call of transition leaves every state with the value next_state
\* held for it, every other id without a value, and next_state empty.
C6_TablesAfterTransition ==
  [][pc = "transition" =>
       \A id \in Ids(model) :
         /\ IsState(model, id) =>
              (current_state'[id] = next_state[id] /\ current_state'[id] # NoBV)
         /\ ~IsState(model, id) => current_state'[id] = NoBV
         /\ next_state'[id] = NoBV]_vars

C6_Witness ==
  /\ status = "running" /\ ntrans >= 1
  /\ pc \in {"initialize_inputs", "parse_state_part"}
  /\ \E id \in Ids(model) : IsState(model, id) /\ current_state[id] # NoBV
  /\ \A id \in Ids(model) : ~IsState(model, id) => current_state[id] = NoBV
  /\ \A id \in Ids(model) : next_state[id] = NoBV

\* C7: every random-mode run ends, and it makes at most r transitions and
\* at most r + 1 calls of simulate_step.
C7_RandomSimulationTerminates ==
  /\ <>(pc = "done")
  /\ [](ntrans <= r /\ nsteps <= r + 1)

C7_Witness ==
  pc = "done" /\ status = "exit0" /\ r >= 2 /\ ntrans = r /\ nsteps = r + 1

\* The cycle of the last entry made in reached_bads.
RECURSIVE LastReached(_, _)
LastReached(reached, i) ==
  IF i = 0 THEN 0 ELSE Max(reached[i], LastReached(reached, i - 1))

\* C8: a finished random-mode run made no transition after the cycle in
\* which the last unreached bad was reached or a constraint was violated,
\* and otherwise made the transition and the step of every cycle 1..r.
C8_StopsOrRunsToBound ==
  (pc = "done" /\ ~checking_mode /\ nsteps > 0) =>
    IF constraints_violated >= 0 THEN ntrans = constraints_violated
    ELSE IF num_unreached_bads = 0
    THEN ntrans = LastReached(reached_bads, Len(reached_bads))
    ELSE ntrans = r /\ nsteps = r + 1

\* C9: a second run on the same model, flags and seed never parts from the
\* first: same values, same reached bads, same trace.
C9_SameSeedSameRun == ~twin.diverged

\* C10: a state-part assignment in a frame k > 0 to a state with a next
\* function is accepted when its constant equals the value the state
\* adopted at the transition, and rejected when it differs.
C10_AdoptedValueAccepted ==
  (/\ last.part = "state" /\ last.k > 0
   /\ last.line.n < Len(states(model))
   /\ last.was # NoBV
   /\ states(model)[last.line.n + 1] \in StatesWithNext(model)) =>
    ((btorsim_bv_char_to_bv(last.line.bits) = last.was) <=> (status # "exit1"))

\* The state that the assignment line recorded in last names, 0 when the
\* line names none.
LastState ==
  IF last.line.t = "a" /\ last.line.n < Len(states(model))
  THEN states(model)[last.line.n + 1] ELSE 0

\* C11: a frame-0 assignment to a state with an init line, with or without
\* a next line, whose constant has the state's width and differs from the
\* value of the init expression, is rejected.
C11_InitMismatchRejected ==
  (/\ last.part = "state" /\ last.k = 0 /\ LastState # 0
   /\ inits(model, LastState) # 0
   /\ Len(last.line.bits) = Models[model][LastState].width
   /\ btorsim_bv_char_to_bv(last.line.bits) #
        Eval(model, current_state, Models[model][inits(model, LastState)].args[2]))
    => status = "exit1"

\* C12: an assignment in the state part of a frame to a state that an
\* earlier line of the same part has assigned is rejected, whether or not
\* the state has a next function.
C12_SecondAssignmentRejected ==
  (last.part = "state" /\ LastState # 0 /\ last.line.n \in last.done)
    => status = "exit1"

\* The input that the assignment line recorded in last names, 0 when the
\* line names none.
LastInput ==
  IF last.line.t = "a" /\ last.line.n < Len(inputs(model))
  THEN inputs(model)[last.line.n + 1] ELSE 0

\* The state or input addressed by the assignment that the loop of
\* parse_state_part or of parse_input_part has read last, 0 when there is
\* none.
LastTarget ==
  CASE last.part = "state" -> LastState
    [] last.part = "input" -> LastInput
    [] OTHER -> 0

InitWithoutNext(m) ==
  {id \in Ids(m) : IsState(m, id) /\ inits(m, id) # 0 /\ nexts(m, id) = 0}

\* C14: a model with a state that has an init line and no next line is not
\* simulated: no step is made on it, and the run ends with exit status 1.
C14_InitWithoutNextRejected ==
  InitWithoutNext(model) # {}
    => /\ nsteps = 0
       /\ pc = "done" => status = "exit1"

\* C15: the line parse_state_part reads for the header of frame 0 is
\* rejected with a parse error unless it is '#0', and in a frame k > 0 a
\* header '#j' with j different from k is rejected with a parse error.
C15_StateHeaderChecked ==
  last.part = "state header"
    => /\ (last.k = 0 /\ ~(last.line.t = "#" /\ last.line.n = 0))
            => status = "exit1" /\ err = "missing state part header"
       /\ (last.k > 0 /\ last.line.t = "#" /\ last.line.n # last.k)
            => status = "exit1" /\ err = "missing state part header"

C15_Witness ==
  /\ last.part = "state header" /\ last.k > 0
  /\ last.line.t = "#" /\ last.line.n # last.k
  /\ status = "exit1" /\ err = "missing state part header"

\* The nodes of model m that simulate can give a value on the table cs.
Valued(m, cs) == {id \in Ids(m) \ {0} : ~simulate(m, cs, id).die}

\* C16: for every node id that has a value in the current cycle,
\* simulate (-id) returns a vector as wide as the one simulate (id) returns
\* with every bit flipped, and the table holds the plain value for id after
\* either call.
C16_NegatedIdIsComplement ==
  \A id \in Valued(model, current_state) :
    \E p \in {simulate(model, current_state, id)} :
      \E n \in {simulate(model, current_state, -id)} :
        /\ ~n.die
        /\ n.res.width = p.res.width
        /\ \A i \in 0..(p.res.width - 1) :
             btorsim_bv_get_bit(n.res, i) = 1 - btorsim_bv_get_bit(p.res, i)
        /\ n.cs[id] = p.res /\ p.cs[id] = p.res
        /\ current_state[id] # NoBV => p.res = current_state[id]

\* In NegModel the step has computed 'i & ~t' from i = 1 and t = 0.
C16_Witness ==
  /\ model = 4
  /\ current_state[2] = BV(1, 1) /\ current_state[3] = BV(1, 0)
  /\ current_state[5] = BV(1, 1)

\* The cycle at which the counter of CounterModel holds all ones.
CounterCycle == Pow2(CounterModel[4].width) - 1

\* C17: a random run on CounterModel (any -b given names a bad) marks the bad reached at cycle
\* 2^w - 1 and at no other cycle, makes at most 2^w - 1 transitions, and
\* with a bound r >= 2^w - 1 ends with the bad reached at cycle 2^w - 1 after
\* exactly 2^w - 1 transitions.
C17_CounterReachesBad ==
  (model = 1 /\ ~checking_mode /\ fake_bad < Len(bads(model))) =>
    /\ \A i \in 1..Len(reached_bads) : reached_bads[i] \in {-1, CounterCycle}
    /\ ntrans <= CounterCycle /\ k <= CounterCycle
    /\ (r >= CounterCycle /\ pc = "done")
         => /\ status = "exit0"
            /\ reached_bads = <<CounterCycle>>
            /\ ntrans = CounterCycle /\ k = CounterCycle
            /\ current_state[4] = BV(CounterModel[4].width, CounterCycle)

C17_Witness ==
  /\ model = 1 /\ ~checking_mode /\ r > CounterCycle /\ pc = "done"
  /\ reached_bads = <<CounterCycle>> /\ ntrans = CounterCycle

\* C18: when a random run that prints its trace has written the '#0'
\* section, the section holds for every state, at its position, the value
\* the state has at cycle 0.
C18_InitialSectionShowsEveryState ==
  (~checking_mode /\ print_trace /\ pc = "initialize_inputs" /\ k = 0) =>
    \A i \in 1..Len(states(model)) :
      \E j \in 1..Len(out) :
        out[j] = Line("a", i - 1,
                      btorsim_bv_print_without_new_line(
                        current_state[states(model)[i]]))

\* The lines of model m whose operator is iff.
IffLines(m) == {n \in 1..Len(Models[m]) : Models[m][n].tag = "iff"}

\* C19: a model with an iff line is accepted, the run does not end with the
\* error that names an unsupported line, and every value the table holds
\* for an iff line is the xnor of the values of its two arguments.
C19_IffAccepted ==
  IffLines(model) # {} =>
    /\ ~(status = "exit1" /\ err = "unsupported")
    /\ \A n \in IffLines(model) :
         current_state[n] # NoBV =>
           current_state[n] =
             btorsim_bv_xnor(current_state[Models[model][n].args[1]],
                             current_state[Models[model][n].args[2]])

\* C20: when the check of a witness has failed, nothing has been written to
\* standard output.
C20_NoOutputBeforeFailure ==
  (checking_mode /\ status = "exit1") => out = <<>>

\* The value of the shift operand b, or 2^30, more than any width, when it
\* is not below 2^31.
Amount(b) ==
  IF ZeroFrom(btorsim_bv_to_uint64(b), 32) THEN UVal(btorsim_bv_to_uint64(b))
  ELSE 2 ^ 30

\* C23: sra(a, b) has the width of a; its bit i is the bit i + b of a where
\* a has one and the most significant bit of a above, so that a shift by
\* the width or more leaves copies of that bit only.
C23_SraFillsWithSign ==
  calc.op = "sra" =>
    /\ calc.res.width = calc.args[1].width
    /\ \A i \in 0..(calc.res.width - 1) :
         bv_get_bit(calc.res, i) =
           bv_get_bit(calc.args[1],
                      IF i + Amount(calc.args[2]) < calc.res.width
                      THEN i + Amount(calc.args[2])
                      ELSE calc.res.width - 1)

\* C24: sll(a, b) and srl(a, b) have the width of a; the bit i of sll is the
\* bit i - b of a and the bit i of srl the bit i + b of a, where a has one,
\* and 0 elsewhere, for the whole unsigned value of b.
C24_ShiftsByFullAmount ==
  /\ calc.op = "sll" =>
       /\ calc.res.width = calc.args[1].width
       /\ \A i \in 0..(calc.res.width - 1) :
            bv_get_bit(calc.res, i) =
              (IF i >= Amount(calc.args[2])
               THEN bv_get_bit(calc.args[1], i - Amount(calc.args[2]))
               ELSE 0)
  /\ calc.op = "srl" =>
       /\ calc.res.width = calc.args[1].width
       /\ \A i \in 0..(calc.res.width - 1) :
            bv_get_bit(calc.res, i) =
              (IF i + Amount(calc.args[2]) < calc.res.width
               THEN bv_get_bit(calc.args[1], i + Amount(calc.args[2]))
               ELSE 0)

\* C21: the bit vector a constructor or an operation returns from canonical
\* operands has a positive width, the words its width needs and no bit set
\* at or above its width.
C21_ResultIsCanonical ==
  calc.op \in BinaryTags \cup UnaryTags
                \cup {"concat", "slice", "uext", "sext", "ite", "one", "ones",
                      "zero", "const", "constd", "new_random"} =>
    /\ calc.res.width > 0
    /\ calc.res.len = (calc.res.width + BTORSIM_BV_TYPE_BW - 1)
                        \div BTORSIM_BV_TYPE_BW
    /\ Len(calc.res.bits) = calc.res.len
    /\ \A i \in 1..calc.res.len :
         /\ Len(calc.res.bits[i]) = BTORSIM_BV_TYPE_BW
         /\ \A j \in 1..BTORSIM_BV_TYPE_BW :
              /\ calc.res.bits[i][j] \in {0, 1}
              /\ (calc.res.len - i) * BTORSIM_BV_TYPE_BW + j - 1
                   >= calc.res.width => calc.res.bits[i][j] = 0

\* not has turned the zero of two words, whose spare bits it sets before
\* they are masked, into the ones of that width.
C21_Witness ==
  /\ calc.op = "not"
  /\ calc.args[1] = bv_new(WideWidth)
  /\ calc.res = bv_ones(WideWidth)

\* The unsigned value of a bit vector in base 2048: its digit d, the bits
\* 11 d to 11 d + 10.
Limb(bv, d) ==
  LET B(j) == IF 11 * d + j < bv.width THEN bv_get_bit(bv, 11 * d + j) ELSE 0
  IN B(0) + 2 * B(1) + 4 * B(2) + 8 * B(3) + 16 * B(4) + 32 * B(5)
       + 64 * B(6) + 128 * B(7) + 256 * B(8) + 512 * B(9) + 1024 * B(10)

\* The digits 0 to n of a bit vector, the digit d at d + 1.
Digits(bv, n) == Tup([d \in 1..(n + 1) |-> Limb(bv, d - 1)])

\* The digits i to d of q against the digits d - i to 0 of b: the part of
\* the digit d of the product q * b before the carries.
RECURSIVE Partial(_, _, _, _)
Partial(q, b, d, i) ==
  IF i > d THEN 0 ELSE q[i + 1] * b[d - i + 1] + Partial(q, b, d, i + 1)

\* The digit d of q * b + rm with the carry of the digits below, not yet
\* reduced.
RECURSIVE Carried(_, _, _, _)
Carried(q, b, rm, d) ==
  Partial(q, b, d, 0) + rm[d + 1]
    + (IF d = 0 THEN 0 ELSE Carried(q, b, rm, d - 1) \div 2048)

\* rm is below b as an unsigned number.
Below(rm, b) ==
  \E i \in 0..(b.width - 1) :
    /\ bv_get_bit(rm, i) = 0 /\ bv_get_bit(b, i) = 1
    /\ \A j \in (i + 1)..(b.width - 1) : bv_get_bit(rm, j) = bv_get_bit(b, j)

\* q and rm are the quotient and the remainder of a by b: a = q * b + rm as
\* natural numbers, digit by digit, and rm is below b.
Divides(a, b, q, rm) ==
  /\ \E n \in {2 * ((a.width + 10) \div 11)} :
       \E da \in {Digits(a, n)} : \E db \in {Digits(b, n)} :
         \E dq \in {Digits(q, n)} : \E dr \in {Digits(rm, n)} :
           \A d \in 0..n : Carried(dq, db, dr, d) % 2048 = da[d + 1]
  /\ Below(rm, b)

\* C22: for a and b of one width w, udiv(a, b) and urem(a, b) have the
\* width w; where b is zero udiv(a, b) is the ones of w and urem(a, b) is
\* a; elsewhere a = udiv(a, b) * b + urem(a, b) as unsigned numbers and
\* urem(a, b) is below b.
C22_UnsignedDivision ==
  calc.op \in {"udiv", "urem"} =>
    \E a \in {calc.args[1]} : \E b \in {calc.args[2]} :
      \E q \in {IF calc.op = "udiv" THEN calc.res
                 ELSE btorsim_bv_udiv(a, b)} :
        \E rm \in {IF calc.op = "urem" THEN calc.res
                    ELSE btorsim_bv_urem(a, b)} :
          /\ q.width = a.width
          /\ rm.width = a.width
          /\ IF \A i \in 0..(b.width - 1) : bv_get_bit(b, i) = 0
             THEN /\ \A i \in 0..(a.width - 1) : bv_get_bit(q, i) = 1
                  /\ rm = a
             ELSE Divides(a, b, q, rm)

\* A remainder of a division in two words has been taken that is neither
\* zero nor the dividend.
C22_Witness ==
  /\ calc.op = "urem"
  /\ calc.args[1].width = WideWidth
  /\ ~bv_is_zero(calc.args[2])
  /\ ~bv_is_zero(calc.res)
  /\ calc.res # calc.args[1]

\* The magnitude of bv as a two's complement number: bv negated where its
\* most significant bit is set.
Magnitude(bv) ==
  IF bv_get_bit(bv, bv.width - 1) = 1 THEN btorsim_bv_neg(bv) ELSE bv

\* C25: for a and b of one width, the width 1 included, sdiv(a, b) is the
\* udiv of the magnitudes, negated exactly where the most significant bits
\* of a and b differ, and srem(a, b) is the urem of the magnitudes, negated
\* exactly where the most significant bit of a is set.
C25_SignedDivision ==
  /\ calc.op = "sdiv" =>
       \E a \in {calc.args[1]} : \E b \in {calc.args[2]} :
         \E q \in {btorsim_bv_udiv(Magnitude(a), Magnitude(b))} :
           calc.res = IF bv_get_bit(a, a.width - 1)
                           # bv_get_bit(b, b.width - 1)
                      THEN btorsim_bv_neg(q) ELSE q
  /\ calc.op = "srem" =>
       \E a \in {calc.args[1]} : \E b \in {calc.args[2]} :
         \E rm \in {btorsim_bv_urem(Magnitude(a), Magnitude(b))} :
           calc.res = IF bv_get_bit(a, a.width - 1) = 1
                      THEN btorsim_bv_neg(rm) ELSE rm

\* A negative number of more than one bit has been divided by a positive
\* one with a remainder, which is negative.
C25_Witness ==
  /\ calc.op = "srem"
  /\ calc.args[1].width > 1
  /\ bv_get_bit(calc.args[1], calc.args[1].width - 1) = 1
  /\ bv_get_bit(calc.args[2], calc.args[2].width - 1) = 0
  /\ ~bv_is_zero(calc.args[2])
  /\ bv_get_bit(calc.res, calc.res.width - 1) = 1

\* a is below b as a two's complement number: a is negative and b is not,
\* or they have one sign and a is below b as an unsigned number.
SignedBelow(a, b) ==
  \/ bv_get_bit(a, a.width - 1) = 1 /\ bv_get_bit(b, b.width - 1) = 0
  \/ /\ bv_get_bit(a, a.width - 1) = bv_get_bit(b, b.width - 1)
     /\ Below(a, b)

\* C26: for operands a and b of one width the evaluator's ult, ulte, ugt
\* and ugte give, in one bit, a < b, a <= b, a > b and a >= b of the
\* unsigned numbers, and slt, slte, sgt and sgte those of the two's
\* complement numbers.
C26_Comparisons ==
  calc.op \in {"ult", "ulte", "ugt", "ugte", "slt", "slte", "sgt", "sgte"} =>
    \E a \in {calc.args[1]} : \E b \in {calc.args[2]} :
      /\ calc.res.width = 1
      /\ (bv_get_bit(calc.res, 0) = 1) =
           CASE calc.op = "ult" -> Below(a, b)
             [] calc.op = "ulte" -> ~Below(b, a)
             [] calc.op = "ugt" -> Below(b, a)
             [] calc.op = "ugte" -> ~Below(a, b)
             [] calc.op = "slt" -> SignedBelow(a, b)
             [] calc.op = "slte" -> ~SignedBelow(b, a)
             [] calc.op = "sgt" -> SignedBelow(b, a)
             [] calc.op = "sgte" -> ~SignedBelow(a, b)

\* sgt has found a positive number of two words above a negative one, which
\* is below it as an unsigned number only.
C26_Witness ==
  /\ calc.op = "sgt"
  /\ calc.args[1].width = WideWidth
  /\ bv_get_bit(calc.args[1], WideWidth - 1) = 0
  /\ bv_get_bit(calc.args[2], WideWidth - 1) = 1
  /\ btorsim_bv_is_true(calc.res)

\* C27: concat(a, b) has the width of a plus that of b, b in its low bits
\* and a above; slice(x, hi, lo) has the width hi - lo + 1 and the bits hi
\* to lo of x; uext(x, n) and sext(x, n) have the width of x plus n, x in
\* the low bits and above it zeros for uext, copies of the most significant
\* bit of x for sext; the evaluator's uext and sext by no bits give x.
C27_ConcatSliceExtend ==
  /\ calc.op = "concat" =>
       \E a \in {calc.args[1]} : \E b \in {calc.args[2]} :
         /\ calc.res.width = a.width + b.width
         /\ \A i \in 0..(calc.res.width - 1) :
              bv_get_bit(calc.res, i) =
                IF i < b.width THEN bv_get_bit(b, i)
                ELSE bv_get_bit(a, i - b.width)
  /\ calc.op = "slice" =>
       /\ calc.res.width = calc.args[2] - calc.args[3] + 1
       /\ \A i \in 0..(calc.res.width - 1) :
            bv_get_bit(calc.res, i) =
              bv_get_bit(calc.args[1], calc.args[3] + i)
  /\ calc.op \in {"uext", "sext"} =>
       \E x \in {calc.args[1]} :
         /\ calc.res.width = x.width + calc.args[2]
         /\ \A i \in 0..(calc.res.width - 1) :
              bv_get_bit(calc.res, i) =
                IF i < x.width THEN bv_get_bit(x, i)
                ELSE IF calc.op = "uext" THEN 0
                ELSE bv_get_bit(x, x.width - 1)
         /\ calc.args[2] = 0 => calc.res = x

\* sext has put a whole word of ones above a negative number of two words.
C27_Witness ==
  /\ calc.op = "sext"
  /\ calc.args[1].width = WideWidth
  /\ calc.args[2] = BTORSIM_BV_TYPE_BW
  /\ bv_get_bit(calc.args[1], WideWidth - 1) = 1
  /\ calc.res.len = 3
  /\ bv_get_bit(calc.res, calc.res.width - 1) = 1

\* C28: not of the not of x is x, neg of the neg of x is x, and the slice
\* of x from its highest bit to its bit 0 is x.
C28_Involutions ==
  /\ calc.op = "not" => bv_not(calc.res) = calc.args[1]
  /\ calc.op = "neg" => btorsim_bv_neg(calc.res) = calc.args[1]
  /\ (/\ calc.op = "slice"
      /\ calc.args[2] = calc.args[1].width - 1
      /\ calc.args[3] = 0) => calc.res = calc.args[1]

\* An odd number of two words has been negated, to another number.
C28_Witness ==
  /\ calc.op = "neg"
  /\ calc.args[1].width = WideWidth
  /\ bv_get_bit(calc.args[1], 0) = 1
  /\ calc.res # calc.args[1]

\* C29: btorsim_bv_char_to_bv reads the string btorsim_bv_to_char has
\* written of x back to x, and btorsim_bv_constd reads the string
\* btorsim_bv_to_dec_char has written of x, which it accepts for the width
\* of x, back to x.
C29_RoundTrips ==
  /\ calc.op = "to_char" => bv_char_to_bv(calc.res) = calc.args[1]
  /\ calc.op = "to_dec_char" =>
       /\ check_constd(calc.res, calc.args[1].width)
       /\ btorsim_bv_constd(calc.res, calc.args[1].width) = calc.args[1]

\* A number of two words has been written in decimal, with ten digits.
C29_Witness ==
  /\ calc.op = "to_dec_char"
  /\ calc.args[1].width = WideWidth
  /\ Len(calc.res) = 10
  /\ calc.res[1] # "0"

\* C30: btorsim_rng_init(seed) leaves w = ((seed << 1) + 1) * 2019164533 and
\* z = ((~seed << 1) + 1) * 1000632769; btorsim_rng_rand sets z to
\* 36969 * (z & 0xFFFF) + (z >> 16) and w to 18000 * (w & 0xFFFF) + (w >> 16)
\* and returns (z << 16) + w; all of it in unsigned integers of 32 bits.
C30_Generator ==
  /\ calc.op = "rng_init" =>
       \E s \in {UInt(calc.args[1], 32)} :
         /\ WordOf(calc.res.w) =
              UMul(UAdd(UShl(s, 1), UInt(1, 32)), UInt(2019164533, 32))
         /\ WordOf(calc.res.z) =
              UMul(UAdd(UShl(UNot(s), 1), UInt(1, 32)), UInt(1000632769, 32))
  /\ calc.op = "rng_rand" =>
       \E z \in {WordOf(calc.args[1].z)} : \E w \in {WordOf(calc.args[1].w)} :
         /\ WordOf(calc.res.rng.z) =
              UAdd(UMul(UInt(36969, 32), UAnd(z, UInt(65535, 32))),
                   UShr(z, 16))
         /\ WordOf(calc.res.rng.w) =
              UAdd(UMul(UInt(18000, 32), UAnd(w, UInt(65535, 32))),
                   UShr(w, 16))
         /\ WordOf(calc.res.res) =
              UAdd(UShl(WordOf(calc.res.rng.z), 16), WordOf(calc.res.rng.w))

\* A generator has given its last number of a row, from a state other than
\* the seeded one.
C30_Witness ==
  /\ calc.op = "rng_rand"
  /\ calc.args[2] = MaxDraws
  /\ calc.res.rng # calc.args[1]

\* The checker has accepted the 'sat' witness: parse_sat_witness has
\* returned into parse_and_check_all_witnesses.
Accepted ==
  /\ checking_mode /\ sat /\ count_witnesses = 1
  /\ pc = "parse_and_check_witness" \/ status = "exit0"

\* C31: when the checker has accepted a 'sat' witness, every bad listed in
\* its header had a non-zero value at some frame at which, and at every
\* frame before which, every constraint's value was non-zero.
C31_AcceptedWitnessReachesClaims ==
  Accepted =>
    \A i \in 1..Len(claimed_bad_witnesses) :
      FirstReach(claimed_bad_witnesses[i] + 1) >= 0

\* TRUE when every argument of each node that holds a value on the table cs
\* and held none on the table before holds a value on cs.
StoredAfterArguments(m, before, cs) ==
  \A n \in Ids(m) \ {0} :
    (cs[n] # NoBV /\ before[n] = NoBV) =>
      \A a \in 1..Len(Models[m][n].args) : cs[Abs(Models[m][n].args[a])] # NoBV

\* C32: within a cycle a node is computed at most once.  simulate of a node
\* that holds a value returns that value and leaves the table as it is;
\* simulate of any node changes no value the table holds, stores what it
\* returns, stores a node only together with the values of all its
\* arguments, and returns the same value when it is called again.
C32_ComputedOnce ==
  /\ StoredAfterArguments(model, EmptyTable(model), current_state)
  /\ \A id \in Ids(model) \ {0} :
       \E s1 \in {simulate(model, current_state, id)} :
         /\ current_state[id] # NoBV =>
              ~s1.die /\ s1.cs = current_state /\ s1.res = current_state[id]
         /\ ~s1.die =>
              /\ \A n \in Ids(model) :
                   current_state[n] # NoBV => s1.cs[n] = current_state[n]
              /\ s1.cs[id] = s1.res
              /\ StoredAfterArguments(model, current_state, s1.cs)
              /\ \E s2 \in {simulate(model, s1.cs, id)} :
                   ~s2.die /\ s2.cs = s1.cs /\ s2.res = s1.res

\* In the second cycle of CounterModel the step has computed 's + 1' and
\* 's = 3' from s = 1, and simulate of the stored node leaves the table.
C32_Witness ==
  /\ model = 1 /\ nsteps >= 2 /\ pc \in {"random_simulation", "parse_frame"}
  /\ current_state[7] = BV(2, 2) /\ current_state[10] = BV(1, 0)
  /\ simulate(model, current_state, 10).cs = current_state

\* C33: in both modes simulate_step and transition alternate, simulate_step
\* first.  At the entry of simulate_step as many transitions as steps have
\* been made and no state has a value in next_state; at the entry of
\* transition one step more than transitions has been made and every state
\* has a value in next_state; so neither 'assert (!next_state[state->id])'
\* nor 'assert (update)' ever fails.
C33_StepsAndTransitionsAlternate ==
  /\ status # "abort"
  /\ nsteps \in {ntrans, ntrans + 1}
  /\ (pc = "simulate_step" /\ status = "running") =>
       /\ nsteps = ntrans /\ ntrans = k
       /\ \A id \in Ids(model) : IsState(model, id) => next_state[id] = NoBV
  /\ (pc = "transition" /\ status = "running") =>
       /\ nsteps = ntrans + 1 /\ nsteps = k
       /\ \A id \in Ids(model) : IsState(model, id) => next_state[id] # NoBV

\* A witness is being checked, two transitions have been made and the third
\* is about to be: every state of a model with states has its next value.
C33_Witness ==
  /\ checking_mode /\ pc = "transition" /\ status = "running" /\ ntrans = 2
  /\ states(model) # <<>>
  /\ \A id \in Ids(model) : IsState(model, id) => next_state[id] # NoBV

\* The positions in the list ids of the lines whose argument is negated.
Negated(m, ids) == {i \in 1..Len(ids) : Models[m][ids[i]].args[1] < 0}

\* C34: a bad or constraint whose argument is a negated identifier is judged
\* on the complement of the node's value.  The constraint counts as violated
\* at the first cycle at which the complement is zero; the bad is marked as
\* reached only at a cycle at which the complement is non-zero, and is
\* marked once the complement was non-zero at a cycle up to which no
\* constraint was violated; and reading the argument does not end the
\* process.
C34_NegatedArgumentJudgedOnComplement ==
  /\ (status = "crash") => Negated(model, bads(model)) = {}
                           /\ Negated(model, constraints(model)) = {}
  /\ status \in {"running", "exit0", "exit1"} =>
       /\ \A c \in Negated(model, constraints(model)) :
            \A j \in 1..Len(seen) :
              ~seen[j].con[c] =>
                constraints_violated >= 0 /\ constraints_violated <= j - 1
       /\ \A i \in Negated(model, bads(model)) :
            i <= Len(reached_bads) =>
              /\ reached_bads[i] >= 0 => seen[reached_bads[i] + 1].bad[i]
              /\ FirstReach(i) >= 0 => reached_bads[i] >= 0

StatesWithoutNext(m) == {id \in Ids(m) : IsState(m, id) /\ nexts(m, id) = 0}

\* The values that the generator g gives, one draw after the other, to the
\* states of model m among ids, from the i-th state on.
RECURSIVE DrawsFrom(_, _, _, _, _)
DrawsFrom(m, ids, i, g, drawn) ==
  IF i > Len(states(m)) THEN drawn
  ELSE IF states(m)[i] \notin ids THEN DrawsFrom(m, ids, i + 1, g, drawn)
  ELSE Only({DrawsFrom(m, ids, i + 1, rnd.rng,
                       [drawn EXCEPT ![states(m)[i]] = rnd.bv]) :
            rnd \in {btorsim_bv_new_random(g, Models[m][states(m)[i]].width)}})

\* C35: a state without a next function gets a new value at every
\* transition.  simulate_step puts into next_state the next draws of the
\* generator in random mode and zero in checking mode; transition makes
\* that the state's value whatever the state held before; a state-part
\* assignment of the frame that is accepted replaces it by the constant of
\* the witness; and no other step of a frame after frame 0 changes it.
C35_FreeStateRedrawn ==
  [][\A id \in StatesWithoutNext(model) :
       /\ (pc = "simulate_step" /\ pc' \in {"random_simulation", "parse_frame"})
            => next_state'[id] =
                 IF checking_mode
                 THEN btorsim_bv_new(Models[model][id].width)
                 ELSE DrawsFrom(model, StatesWithoutNext(model), 1, rng,
                                EmptyTable(model))[id]
       /\ (pc = "transition" /\ status' = "running")
            => current_state'[id] = next_state[id] /\ next_state[id] # NoBV
       /\ (pc = "parse_state_assignment" /\ pc' = "parse_state_assignment"
             /\ LastState' = id)
            => current_state'[id] = btorsim_bv_char_to_bv(last'.line.bits)
       /\ (k > 0 /\ pc \notin {"transition", "parse_state_assignment", "done"})
            => current_state'[id] = current_state[id]]_vars

\* In frame 1 of a witness for FreeStateModel the state without next, which
\* the transition has left with zero, is assigned 1.
C35_Witness ==
  /\ checking_mode /\ model = 3 /\ status = "running" /\ ntrans = 1
  /\ last.part = "state" /\ last.k = 1 /\ LastState = 2
  /\ last.was = BV(1, 0) /\ current_state[2] = BV(1, 1)

StatesWithoutInit(m) == {id \in Ids(m) : IsState(m, id) /\ inits(m, id) = 0}

\* C36: initialize_states leaves every state with an init line holding the
\* value of its init expression, and every state without one holding the
\* generator's next draw in random mode and, in checking mode, the value
\* that frame 0 of the witness has assigned to it, or zero when it has
\* assigned none.
C36_InitialValues ==
  [][(pc = "initialize_states" /\ pc' = "initialize_inputs") =>
       \A id \in Ids(model) :
         IsState(model, id) =>
           IF inits(model, id) # 0
           THEN current_state'[id] =
                  Eval(model, current_state',
                       Models[model][inits(model, id)].args[2])
           ELSE IF ~checking_mode
           THEN current_state'[id] =
                  DrawsFrom(model, StatesWithoutInit(model), 1, rng,
                            EmptyTable(model))[id]
           ELSE IF current_state[id] # NoBV
           THEN current_state'[id] = current_state[id]
           ELSE current_state'[id] = btorsim_bv_new(Models[model][id].width)]_vars

\* C37: the line that parse_input_part reads for the header of frame k is
\* rejected unless it is '@k', so that the run never goes on behind another
\* line, and no assignment line is read without being applied.
C37_InputHeaderChecked ==
  /\ ~(pc = "parse_input_skip" /\ status = "running")
  /\ ~(last.part = "skipped" /\ last.line.t = "a")

\* C38: num_unreached_bads is the number of bads whose entry in reached_bads
\* is -1, in every state of a run, and from the first step of the
\* simulation on no step of the run makes it larger.
C38_CountOfUnreachedBads ==
  [][/\ num_unreached_bads = Unreached(reached_bads)
     /\ num_unreached_bads' = Unreached(reached_bads')
     /\ (pc \notin {"main", "done"}) => num_unreached_bads' <= num_unreached_bads]_vars

\* A run on InputModel in which one of the two bads is reached and the
\* other is not, two cycles after the first.
C38_Witness ==
  /\ model = 2 /\ status = "running" /\ nsteps = 3
  /\ num_unreached_bads = 1 /\ reached_bads[1] = -1 /\ reached_bads[2] = 0

\* C39: on a model without a bad property a random simulation makes the
\* step of cycle 0 and no transition, whatever its bound: the number of
\* unreached bads is zero from the parse of the model on, and the run ends
\* with cycle 0 as its only cycle.
C39_NoBadNoTransition ==
  (~checking_mode /\ bads(model) = <<>>) =>
    /\ num_unreached_bads = 0
    /\ ntrans = 0 /\ k = 0 /\ nsteps <= 1 /\ pc # "transition"
    /\ (pc = "done" /\ fake_bad < 0) => status = "exit0" /\ nsteps = 1

C39_Witness ==
  /\ ~checking_mode /\ bads(model) = <<>> /\ r = MaxR
  /\ pc = "done" /\ status = "exit0" /\ nsteps = 1 /\ ntrans = 0
  /\ current_state[5] = BV(1, 1)

\* What the loop of parse_input_part has made of the assignment it read
\* last: a line that names an input named by an earlier line of the same
\* input part is rejected, and a line that names an input for the first
\* time in its frame, with a constant as wide as the input, is accepted and
\* gives the input its constant.
InputAssignedOncePerFrame ==
  (last.part = "input" /\ LastInput # 0) =>
    IF last.line.n \in last.done
    THEN /\ status = "exit1"
         /\ err \in {"input assigned twice in frame", "expected constant of width"}
    ELSE Len(last.line.bits) = Models[model][LastInput].width =>
           /\ last.was = NoBV
           /\ status = "running"
           /\ current_state[LastInput] = btorsim_bv_char_to_bv(last.line.bits)

====
